---- MODULE Spec2Model ----
(***************************************************************************)
(* Verification model of arcadian-gsc-insights.                            *)
(*                                                                         *)
(* Part 1: the snapshot store (lib/cache.ts), the rebuild lock             *)
(* (lib/cache-lock.ts), the row ingestor (lib/csv-parser.ts), the daily    *)
(* aggregator (lib/aggregator.ts) and the error classification of          *)
(* GET /api/data, as an interleaving of concurrent request handlers of one *)
(* Node.js process.  A step of the model is one run-to-completion segment  *)
(* of a handler between two awaits.                                        *)
(*                                                                         *)
(* Part 2: the range summarizer (lib/insights-builder.ts) as operators,    *)
(* applied by the actions of a second specification.                       *)
(*                                                                         *)
(* Part 3: the ingest -> aggregate pass on its own, the date filter of the *)
(* routes and the rate limiter (lib/security.ts), each with its own        *)
(* specification.                                                          *)
(*                                                                         *)
(* Part 4: the analysis client (lib/claude-client.ts) and the handler of   *)
(* POST /api/insights around it, with the responses of its catch block.    *)
(*                                                                         *)
(* The snapshot store is also run under fair scheduling, and together with *)
(* the handler of POST /api/upload, which replaces the CSV file.           *)
(***************************************************************************)
EXTENDS Integers, Sequences, FiniteSets, TLC

(***************************************************************************)
(* Bounds of the model.                                                    *)
(***************************************************************************)
NCallers == 3

Callers == 1..NCallers

\* longest series of the small summarizer inputs
MaxSeriesLen == 6

\* longest input of the ingest -> aggregate pass drawn from all row kinds
MaxRows == 4

\* days of the collection a date range is applied to
MaxFilterDays == 5

\* caller identities of the rate limiter
NIds == 2

Ids == 1..NIds

\* resolution of the clock: ticks in the time one token takes to refill
TicksPerToken == 2

\* ticks the clock advances one by one, before one long pause
MaxTime == 2

\* calls made by the callers other than the observed one, in total
MaxOtherCalls == 2

\* in a year-long series the peak or the trough lies within this many days
\* of either end, the other one on any day
EdgeDays == 9

(***************************************************************************)
(* Program constants.                                                      *)
(***************************************************************************)
maxErrors == 100

\* buildInsightsPayload: downsampleSeries(series, 60)
maxPoints == 60

\* POST /api/insights: validateDateRange(startDate, endDate, 365)
maxDays == 365

\* insightsRateLimiter = new RateLimiter(10, 10)
maxTokens == 10

refillPerMinute == 10

\* RateLimiter.cleanup: maxAge, in milliseconds
maxAge == 600000

\* generateInsights: retries after the first attempt
maxRetries == 1

\* POST /api/insights: largest serialized payload sent to the service
PayloadLimit == 30000

\* validateClaudeResponse: most entries of each array
maxInsights == 20

maxAnomalies == 50

maxOpportunities == 20

maxQuestions == 20

\* validateClaudeResponse: most characters of an insight, an opportunity, a
\* question or an anomaly's explanation
maxTextLen == 500

\* validateClaudeResponse: most characters of an anomaly's date, metric, change
maxDateLen == 20

maxMetricLen == 50

maxChangeLen == 200

VARIABLES
  pc,            \* position of each request handler
  cached,        \* getCacheOrBuild: cached / cachedAfterLock of each caller
  aggregates,    \* getCacheOrBuild: aggregates built by each caller
  jsonData,      \* writeCache: serialized text being written by each caller
  wOff,          \* writeCache: number of chunks fs.writeFile has written
  fnResult,      \* withCacheLock: outcome of fn(), kept until finally has run
  result,        \* outcome of getCacheOrBuild as seen by the route handler
  response,      \* response of GET /api/data
  lockState,     \* CacheLock.state
  cacheFile,     \* .data-cache/daily-aggregates.json
  source,        \* the CSV file at CSV_FILE_PATH (name of its content)
  disk,          \* condition of the cache directory's file system
  ingestCount,   \* history: number of streamParseCSV passes started
  written,       \* history: collections passed to writeCache or present at start
  wokenBy,       \* history: outcome of the rebuild a waiter was woken by
  series,        \* summarizer: input series
  sumPc,         \* summarizer: position
  anomalies,     \* summarizer: result of detectAnomalies
  trends,        \* summarizer: result of calculateTrends
  sampled,       \* summarizer: result of downsampleSeries
  rows,          \* ingest pass: records csv-parse delivers
  stream,        \* ingest pass: run of streamParseCSV
  built,         \* ingest pass: outcome of buildDailyAggregates
  ingPc,         \* ingest pass: position
  range,         \* date filter: start and end of the request
  filtered,      \* date filter: result of filterByDateRange
  refiltered,    \* date filter: result of applying it to its own result
  filtPc,        \* date filter: position
  buckets,       \* RateLimiter.buckets
  now,           \* Date.now(), in ticks
  lastCheck,     \* history: the checkLimit call just made and the bucket it found
  winStart,      \* history: start of the observed interval
  admittedIn,    \* history: calls of the observed caller admitted in the interval
  callsNow,      \* history: calls of the observed caller at the instant of its first call
  admittedNow,   \* history: those of them that were admitted
  fresh,         \* history: the observed caller's bucket was created at this instant
  otherCalls,    \* history: number of calls of the other callers
  shadow,        \* reference: buckets of a limiter given the same calls and no cleanup
  shadowCheck,   \* reference: what the call just made found and got there
  postPc,        \* POST /api/insights: position of the handler
  apiKey,        \* process.env.ANTHROPIC_API_KEY is set
  body,          \* POST /api/insights: the request body
  payloadSize,   \* POST /api/insights: JSON.stringify(payload).length
  attempt,       \* generateInsights: loop counter
  lastError,     \* generateInsights: lastError
  insights,      \* outcome of generateInsights as seen by the route handler
  caught,        \* POST /api/insights: the error that reached the catch block
  postResponse,  \* response of POST /api/insights
  admitted,      \* history: checkLimit admitted the request
  validated,     \* history: the body passed the field and date-range validation
  sliceLen,      \* history: length of the filtered slice, -1 before the filter
  cacheCalls,    \* history: number of getCacheOrBuild calls of the request
  extCalls,      \* history: number of client.messages.create calls
  backoffs,      \* history: number of backoff waits started
  failures,      \* history: the failed attempts, in order
  upPc,          \* POST /api/upload: position of the handler
  detached,      \* callers writing to a snapshot file that has been unlinked
  lateCallers    \* history: callers that had not called when the upload completed

cacheVars == <<pc, cached, aggregates, jsonData, wOff, fnResult, result,
               response, lockState, cacheFile, source, disk, ingestCount,
               written, wokenBy>>

sumVars == <<series, sumPc, anomalies, trends, sampled>>

ingVars == <<rows, stream, built, ingPc>>

filtVars == <<range, filtered, refiltered, filtPc>>

limVars == <<buckets, now, lastCheck, winStart, admittedIn, callsNow, admittedNow, fresh,
             otherCalls, shadow, shadowCheck>>

insVars == <<postPc, apiKey, body, payloadSize, attempt, lastError, insights, caught, postResponse,
             admitted, validated, sliceLen, cacheCalls, extCalls, backoffs, failures>>

upVars == <<upPc, detached, lateCallers>>

notCacheVars == <<sumVars, ingVars, filtVars, limVars, insVars, upVars>>

notSumVars == <<cacheVars, ingVars, filtVars, limVars, insVars, upVars>>

notIngVars == <<cacheVars, sumVars, filtVars, limVars, insVars, upVars>>

notFiltVars == <<cacheVars, sumVars, ingVars, limVars, insVars, upVars>>

notLimVars == <<cacheVars, sumVars, ingVars, filtVars, insVars, upVars>>

notInsVars == <<cacheVars, sumVars, ingVars, filtVars, upVars>>

vars == <<pc, cached, aggregates, jsonData, wOff, fnResult, result,
          response, lockState, cacheFile, source, disk, ingestCount,
          written, wokenBy, series, sumPc, anomalies, trends, sampled,
          rows, stream, built, ingPc,
          range, filtered, refiltered, filtPc,
          buckets, now, lastCheck, winStart, admittedIn, callsNow, admittedNow, fresh,
          otherCalls, shadow, shadowCheck,
          postPc, apiKey, body, payloadSize, attempt, lastError, insights, caught, postResponse,
          admitted, validated, sliceLen, cacheCalls, extCalls, backoffs, failures,
          upPc, detached, lateCallers>>

(***************************************************************************)
(* Generic helpers.                                                        *)
(***************************************************************************)
Range(s) == {s[i] : i \in 1..Len(s)}

Min(a, b) == IF a < b THEN a ELSE b

(***************************************************************************)
(* Rows of the CSV file as csv-parse delivers them.  A date key is the      *)
(* number yyyymmdd of its fixed-width string "yyyy-mm-dd", so that the     *)
(* order of the numbers is the string order of the keys; EmptyDate stands  *)
(* for an empty or missing field and HeaderDate for the literal            *)
(* "analytics_date".  Numeric fields are the finite values                 *)
(* parseNumericField returns.                                              *)
(***************************************************************************)
EmptyDate == 0

HeaderDate == -1

Row(d, c, i, r, p) ==
  [analytics_date |-> d, clicks |-> c, impressions |-> i, ctr |-> r, position |-> p]

HeaderRow == Row(HeaderDate, 0, 0, 0, 0)

BadRow == Row(EmptyDate, 0, 0, 0, 0)

(***************************************************************************)
(* Contents the CSV file can have.  "missing" is the absent file.          *)
(***************************************************************************)
SourceNames == {"valid1", "valid2", "corrupt", "nodata", "missing"}

SourceRows(name) ==
  CASE name = "valid1" ->
         << Row(20240102, 3, 10, 2, 4), HeaderRow,
            Row(20240101, 5, 20, 1, 3), BadRow,
            Row(20240102, 4, 30, 1, 2) >>
    [] name = "valid2" ->
         << Row(20240103, 9, 0, 5, 1) >>
    [] name = "corrupt" ->
         [i \in 1..(maxErrors + 2) |->
            IF i = 1 THEN Row(20240101, 1, 1, 1, 1) ELSE BadRow]
    [] name = "nodata" ->
         << HeaderRow, BadRow >>
    [] OTHER -> << >>

(***************************************************************************)
(* Errors: the code property of a Node.js error and its message, the       *)
(* message kept as the sequence of the phrases it was concatenated from.   *)
(***************************************************************************)
NoError == [code |-> "", msg |-> << >>]

Error(code, msg) == [code |-> code, msg |-> msg]

\* String.prototype.includes on a message, for the needles the routes use.
PhraseIncludes(phrase, needle) ==
  \/ phrase = needle
  \/ needle = "CSV file not found" /\ phrase = "CSV file not found at path: <path>"
  \/ needle = "Failed to build aggregates"
       /\ phrase \in {"Failed to build aggregates from CSV: ", "Failed to build aggregates: "}
  \/ needle = "Failed to write cache" /\ phrase = "Failed to write cache: "
  \/ needle = "ANTHROPIC_API_KEY" /\ phrase = "ANTHROPIC_API_KEY environment variable is not set"
  \/ needle = "aborted"
       /\ phrase \in {"Request aborted: The AI service request timed out after 30 seconds",
                      "Request was aborted."}
  \/ needle = "Failed to generate insights after"
       /\ phrase = "Failed to generate insights after 2 attempts: "
  \/ needle = "Failed to parse Claude response"
       /\ phrase = "Failed to parse Claude response as JSON: "
  \/ needle = "Invalid response structure" /\ phrase = "Invalid response structure: "
  \/ needle = "429"
       /\ phrase \in {"429 rate_limit_error", "Unexpected token } in JSON at position 429"}
  \/ needle = "rate_limit" /\ phrase = "429 rate_limit_error"
  \/ needle = "401" /\ phrase = "401 authentication_error"
  \/ needle = "authentication"
       /\ phrase \in {"401 authentication_error",
                      "AI service authentication failed. Please check API key configuration."}

Includes(msg, needle) == \E i \in 1..Len(msg) : PhraseIncludes(msg[i], needle)

(***************************************************************************)
(* lib/csv-parser.ts: streamParseCSV.  The generator is consumed to its    *)
(* end by buildDailyAggregates, so its run is the rows it yields and the   *)
(* error it ends with (NoError when it completes).                         *)
(***************************************************************************)
\* the loop body aborting as soon as the count reaches maxErrors
ParseStepAtLimit(run, row) ==
  IF run.err # NoError THEN run
  ELSE IF row.analytics_date = HeaderDate
    THEN [run EXCEPT !.rowCount = @ + 1]
  ELSE IF row.analytics_date = EmptyDate
    THEN IF run.errorCount + 1 >= maxErrors
           THEN [run EXCEPT !.rowCount = @ + 1, !.errorCount = @ + 2,
                            !.err = [code |-> "", msg |-> <<"Too many parsing errors">>]]
           ELSE [run EXCEPT !.rowCount = @ + 1, !.errorCount = @ + 1]
  ELSE [run EXCEPT !.rowCount = @ + 1, !.rows = Append(@, row)]

\* One pass of the for-await loop body, lines 56-99.  A run that has ended
\* with an error takes no further rows.
ParseStep(run, row) ==
  IF run.err # NoError THEN run
  ELSE IF row.analytics_date = HeaderDate
    THEN [run EXCEPT !.rowCount = @ + 1]
  ELSE IF row.analytics_date = EmptyDate
    THEN IF run.errorCount + 1 > maxErrors
           \* the throw of line 69 is caught by the row-level catch of
           \* line 91, which counts it again and throws the fatal error
           THEN [run EXCEPT !.rowCount = @ + 1, !.errorCount = @ + 2,
                            !.err = Error("", <<"Too many parsing errors">>)]
           ELSE [run EXCEPT !.rowCount = @ + 1, !.errorCount = @ + 1]
  ELSE [run EXCEPT !.rowCount = @ + 1, !.rows = Append(@, row)]

\* The loop over rows[lo..hi] in order, halved to keep the evaluation shallow.
RECURSIVE ParseRange(_, _, _, _)
ParseRange(recs, lo, hi, run) ==
  IF lo > hi THEN run
  ELSE IF lo = hi THEN ParseStep(run, recs[lo])
  ELSE LET left == ParseRange(recs, lo, (lo + hi) \div 2, run)
       IN  IF left.err # NoError THEN left
           ELSE ParseRange(recs, ((lo + hi) \div 2) + 1, hi, left)

ParseRows(recs) ==
  LET run == ParseRange(recs, 1, Len(recs),
                        [rowCount |-> 0, errorCount |-> 0, rows |-> << >>, err |-> NoError])
  IN  IF run.err = NoError /\ run.rowCount = 0
        THEN [run EXCEPT !.err = Error("", <<"CSV file is empty or contains no valid data rows">>)]
        ELSE run

streamParseCSV(name) ==
  IF name = "missing"
    THEN [rowCount |-> 0, errorCount |-> 0, rows |-> << >>,
          err |-> Error("", <<"CSV file not found at path: <path>">>)]
    ELSE ParseRows(SourceRows(name))

(***************************************************************************)
(* lib/aggregator.ts: buildDailyAggregates.  dateMap is the Map in         *)
(* insertion order; a quotient of two numbers is kept as the pair          *)
(* <<numerator, denominator>>.                                             *)
(***************************************************************************)
Quot(n, d) == <<n, d>>

\* the accumulation that stores the clicks of the latest row of a date
AccumulateLatest(dateMap, row) ==
  LET hit == {k \in 1..Len(dateMap) : dateMap[k].date = row.analytics_date}
      put(e) == [date |-> e.date,
                 clicks |-> row.clicks,
                 impressions |-> e.impressions + row.impressions,
                 ctrWeightedSum |-> e.ctrWeightedSum + row.ctr * row.impressions,
                 positionWeightedSum |-> e.positionWeightedSum + row.position * row.impressions]
  IN  IF hit = {}
        THEN Append(dateMap, put([date |-> row.analytics_date, clicks |-> 0, impressions |-> 0,
                                  ctrWeightedSum |-> 0, positionWeightedSum |-> 0]))
        ELSE LET k == CHOOSE k \in hit : TRUE
             IN  [dateMap EXCEPT ![k] = put(dateMap[k])]

\* lines 58-82: get or initialize the accumulator of the row's date, add
\* the row to it
Accumulate(dateMap, row) ==
  LET hit == {k \in 1..Len(dateMap) : dateMap[k].date = row.analytics_date}
      add(e) == [date |-> e.date,
                 clicks |-> e.clicks + row.clicks,
                 impressions |-> e.impressions + row.impressions,
                 ctrWeightedSum |-> e.ctrWeightedSum + row.ctr * row.impressions,
                 positionWeightedSum |-> e.positionWeightedSum + row.position * row.impressions]
  IN  IF hit = {}
        THEN Append(dateMap, add([date |-> row.analytics_date, clicks |-> 0, impressions |-> 0,
                                  ctrWeightedSum |-> 0, positionWeightedSum |-> 0]))
        ELSE LET k == CHOOSE k \in hit : TRUE
             IN  [dateMap EXCEPT ![k] = add(dateMap[k])]

\* The for-await loop over rows[lo..hi], lines 50-84, halved as above.
RECURSIVE FoldRows(_, _, _, _)
FoldRows(recs, lo, hi, dateMap) ==
  IF lo > hi THEN dateMap
  ELSE IF lo = hi
    THEN IF recs[lo].analytics_date = EmptyDate THEN dateMap ELSE Accumulate(dateMap, recs[lo])
  ELSE LET left == FoldRows(recs, lo, (lo + hi) \div 2, dateMap)
       IN  IF Len(left) = 0 THEN FoldRows(recs, ((lo + hi) \div 2) + 1, hi, << >>)
           ELSE FoldRows(recs, ((lo + hi) \div 2) + 1, hi, left)

\* the finalization without the check for zero impressions
FinalizeUnguarded(e) ==
  [date |-> e.date,
   clicks |-> e.clicks,
   impressions |-> e.impressions,
   ctr |-> <<e.ctrWeightedSum, e.impressions>>,
   position |-> <<e.positionWeightedSum, e.impressions>>]

\* lines 99-118
Finalize(e) ==
  [date |-> e.date,
   clicks |-> e.clicks,
   impressions |-> e.impressions,
   ctr |-> IF e.impressions > 0 THEN Quot(e.ctrWeightedSum, e.impressions) ELSE Quot(0, 1),
   position |-> IF e.impressions > 0 THEN Quot(e.positionWeightedSum, e.impressions) ELSE Quot(0, 1)]

\* Array.prototype.sort with (a, b) => a.date.localeCompare(b.date): stable.
RECURSIVE InsertByDate(_, _)
InsertByDate(sorted, x) ==
  IF sorted = << >> \/ sorted[Len(sorted)].date <= x.date
    THEN Append(sorted, x)
    ELSE Append(InsertByDate(SubSeq(sorted, 1, Len(sorted) - 1), x), sorted[Len(sorted)])

RECURSIVE SortRange(_, _, _, _)
SortRange(s, lo, hi, acc) ==
  IF lo > hi THEN acc
  ELSE IF lo = hi THEN InsertByDate(acc, s[lo])
  ELSE LET left == SortRange(s, lo, (lo + hi) \div 2, acc)
       IN  IF Len(left) = 0 THEN SortRange(s, ((lo + hi) \div 2) + 1, hi, << >>)
           ELSE SortRange(s, ((lo + hi) \div 2) + 1, hi, left)

\* the collection left in the insertion order of the Map
SortByDateKeepOrder(s) == s

\* line 122
SortByDate(s) == SortRange(s, 1, Len(s), << >>)

buildDailyAggregates(run) ==
  LET dateMap == FoldRows(run.rows, 1, Len(run.rows), << >>)
  IN  IF run.err # NoError
        THEN [data |-> << >>,
              err |-> Error("", <<"Failed to build aggregates: ">> \o run.err.msg)]
        ELSE IF Len(dateMap) = 0
          THEN [data |-> << >>, err |-> Error("", <<"No valid data found in CSV file">>)]
          ELSE [data |-> SortByDate([k \in 1..Len(dateMap) |-> Finalize(dateMap[k])]),
                err |-> NoError]

(***************************************************************************)
(* lib/cache.ts: the snapshot file.  Its text is a sequence of chunks: the *)
(* opening bracket, one chunk per DailyAggregate, the closing bracket.     *)
(***************************************************************************)
NoAgg == [date |-> EmptyDate, clicks |-> 0, impressions |-> 0,
          ctr |-> Quot(0, 1), position |-> Quot(0, 1)]

Tok(kind, val) == [tok |-> kind, val |-> val]

\* JSON.stringify(data, null, 2)
Stringify(data) ==
  <<Tok("[", NoAgg)>> \o [k \in 1..Len(data) |-> Tok("obj", data[k])] \o <<Tok("]", NoAgg)>>

\* the text is one complete JSON value
JSONValid(text) ==
  \/ /\ Len(text) >= 2
     /\ text[1].tok = "["
     /\ text[Len(text)].tok = "]"
     /\ \A k \in 2..(Len(text) - 1) : text[k].tok = "obj"
  \/ /\ Len(text) = 1
     /\ text[1].tok = "obj"

IsArrayText(text) == text[1].tok = "["

Null == [isNull |-> TRUE, data |-> << >>]

Some(data) == [isNull |-> FALSE, data |-> data]

NoFile == [exists |-> FALSE, text |-> << >>]

File(text) == [exists |-> TRUE, text |-> text]

\* readCache with a parser that tolerates a missing closing bracket
readCacheLenient(file) ==
  IF ~file.exists \/ Len(file.text) < 2 \/ file.text[1].tok # "[" THEN [isNull |-> TRUE, data |-> << >>]
  ELSE LET objs == SelectSeq(file.text, LAMBDA t : t.tok = "obj")
       IN  [isNull |-> FALSE, data |-> [k \in 1..Len(objs) |-> objs[k].val]]

\* readCache, given what fs.readFile finds: ENOENT, a SyntaxError of
\* JSON.parse and a value that is not an array all give null.
readCache(file) ==
  IF ~file.exists THEN Null
  ELSE IF ~JSONValid(file.text) THEN Null
  ELSE IF ~IsArrayText(file.text) THEN Null
  ELSE Some([k \in 1..(Len(file.text) - 2) |-> file.text[k + 1].val])

\* fs.writeFile writes its next chunk at its own offset
WriteAt(text, off, chunk) == SubSeq(text, 1, Min(off, Len(text))) \o <<chunk>>

(***************************************************************************)
(* Outcome of an async call: a value or an error.                          *)
(***************************************************************************)
Pending == [kind |-> "none", data |-> << >>, err |-> NoError]

Ok(data) == [kind |-> "ok", data |-> data, err |-> NoError]

Fail(err) == [kind |-> "err", data |-> << >>, err |-> err]

\* getCacheOrBuild, lines 156-164: the catch around ingest, aggregate and write
WrapBuildError(err) ==
  IF err.code = "ENOENT"
    THEN Error("", <<"CSV file not found at path: <path>">>)
    ELSE Error("", <<"Failed to build aggregates from CSV: ">> \o err.msg)

\* writeCache, lines 94-97
WrapWriteError(err) == Error("", <<"Failed to write cache: ">> \o err.msg)

(***************************************************************************)
(* lib/cache-lock.ts: CacheLock.  promise is TRUE when state.promise (and  *)
(* with it state.resolve) is set.  A caller awaiting the promise has       *)
(* pc = "waiting"; resolving it schedules the continuation of each of them.*)
(***************************************************************************)
Unlocked == [locked |-> FALSE, promise |-> FALSE]

\* acquire that forgets to set state.locked
acquireNoSet(lk) ==
  IF ~lk.locked
    THEN [state |-> [locked |-> FALSE, promise |-> TRUE], to |-> "acquired"]
    ELSE [state |-> lk, to |-> "waiting"]

\* acquire, lines 144-150: the synchronous test-and-set
acquire(lk) ==
  IF ~lk.locked
    THEN [state |-> [locked |-> TRUE, promise |-> TRUE], to |-> "acquired"]
    ELSE IF lk.promise
      THEN [state |-> lk, to |-> "waiting"]
      ELSE [state |-> lk, to |-> "acquired"]

\* release, lines 163-171
release(lk) == [locked |-> FALSE, promise |-> FALSE]

\* a release that does not call state.resolve()
ResolveNone(lk, p) == p

\* continuations scheduled by state.resolve()
Resolve(lk, p) == [c \in Callers |-> IF lk.promise /\ p[c] = "waiting" THEN "woken" ELSE p[c]]

(***************************************************************************)
(* app/api/data/route.ts: the catch block of GET.  details is the message  *)
(* put into the body: a fixed text or the error's own message.             *)
(***************************************************************************)
NoResponse == [status |-> 0, error |-> "", details |-> << >>]

ErrorResponse(error, details) == [status |-> 500, error |-> error, details |-> details]

GETResponse(res) ==
  IF res.kind = "ok" THEN [status |-> 200, error |-> "", details |-> << >>]
  ELSE IF Includes(res.err.msg, "CSV file not found")
    THEN ErrorResponse("CSV file not found", <<"fixed">>)
  ELSE IF Includes(res.err.msg, "Failed to build aggregates")
    THEN ErrorResponse("Failed to process CSV data", res.err.msg)
  ELSE IF Includes(res.err.msg, "Failed to write cache")
    THEN ErrorResponse("Failed to cache data", <<"fixed">>)
  ELSE ErrorResponse("An unexpected error occurred while loading data", res.err.msg)

(***************************************************************************)
(* States the process can start in.  The snapshot file is absent, complete *)
(* (left by an earlier run), cut short (an earlier run died while writing),*)
(* or holds a JSON value that is not an array.                             *)
(***************************************************************************)
\* outcome of the ingest -> aggregate pass over each content of the CSV file
BuildOf == [name \in SourceNames |-> buildDailyAggregates(streamParseCSV(name))]

OldSnapshot == BuildOf["valid2"].data

InitialFiles ==
  { NoFile,
    File(Stringify(OldSnapshot)),
    File(SubSeq(Stringify(OldSnapshot), 1, 2)),
    File(<<Tok("obj", NoAgg)>>) }

InitialSources == {"valid1", "corrupt", "nodata", "missing"}

DiskStates == {"ok", "nodir", "full"}

\* calculateTrends, lines 113-122: the result for an empty series
NoTrends ==
  [peakDay |-> [date |-> EmptyDate, clicks |-> 0],
   troughDay |-> [date |-> EmptyDate, clicks |-> 0],
   biggestSpike |-> [date |-> EmptyDate, change |-> 0],
   biggestDrop |-> [date |-> EmptyDate, change |-> 0]]

NoStream == [rowCount |-> 0, errorCount |-> 0, rows |-> << >>, err |-> NoError]

NoBuild == [data |-> << >>, err |-> NoError]

IngestIdle ==
  /\ rows = << >>
  /\ stream = NoStream
  /\ built = NoBuild
  /\ ingPc = "off"

\* a bucket the Map does not hold
NoBucket == [present |-> FALSE, tokens |-> 0, lastRefill |-> 0]

NoCheck == [id |-> 0, before |-> NoBucket, at |-> 0, allowed |-> FALSE]

NoShadowCheck == [before |-> NoBucket, allowed |-> FALSE]

\* the limiter after construction: no buckets
LimiterIdle ==
  /\ buckets = [id \in Ids |-> NoBucket]
  /\ now = 0
  /\ lastCheck = NoCheck
  /\ winStart = 0
  /\ admittedIn = 0
  /\ callsNow = 0
  /\ admittedNow = 0
  /\ fresh = FALSE
  /\ otherCalls = 0
  /\ shadow = [id \in Ids |-> NoBucket]
  /\ shadowCheck = NoShadowCheck

\* no request of POST /api/insights is modelled
NoBody == [json |-> FALSE, startDate |-> 0, endDate |-> 0]

InsightsIdle ==
  /\ postPc = "off"
  /\ apiKey = TRUE
  /\ body = NoBody
  /\ payloadSize = 0
  /\ attempt = 0
  /\ lastError = NoError
  /\ insights = Pending
  /\ caught = NoError
  /\ postResponse = NoResponse
  /\ admitted = FALSE
  /\ validated = FALSE
  /\ sliceLen = -1
  /\ cacheCalls = 0
  /\ extCalls = 0
  /\ backoffs = 0
  /\ failures = << >>

\* no upload is modelled
UploadIdle ==
  /\ upPc = "off"
  /\ detached = {}
  /\ lateCallers = {}

FilterIdle ==
  /\ range = [start |-> 0, end |-> 0]
  /\ filtered = << >>
  /\ refiltered = << >>
  /\ filtPc = "off"

SumIdle ==
  /\ series = << >>
  /\ sumPc = "off"
  /\ anomalies = << >>
  /\ trends = NoTrends
  /\ sampled = << >>

Init ==
  /\ pc = [c \in Callers |-> "idle"]
  /\ cached = [c \in Callers |-> Null]
  /\ aggregates = [c \in Callers |-> << >>]
  /\ jsonData = [c \in Callers |-> << >>]
  /\ wOff = [c \in Callers |-> 0]
  /\ fnResult = [c \in Callers |-> Pending]
  /\ result = [c \in Callers |-> Pending]
  /\ response = [c \in Callers |-> NoResponse]
  /\ lockState = Unlocked
  /\ cacheFile \in InitialFiles
  /\ source \in InitialSources
  /\ disk \in DiskStates
  /\ ingestCount = 0
  /\ written = IF readCache(cacheFile).isNull THEN {} ELSE {readCache(cacheFile).data}
  /\ wokenBy = [c \in Callers |-> "none"]
  /\ SumIdle
  /\ IngestIdle
  /\ FilterIdle
  /\ LimiterIdle
  /\ InsightsIdle
  /\ UploadIdle

(***************************************************************************)
(* GET /api/data up to its await of getCacheOrBuild, which runs on into    *)
(* readCache and issues fs.readFile (the fast path).                       *)
(***************************************************************************)
Call(c) ==
  /\ pc[c] = "idle"
  /\ pc' = [pc EXCEPT ![c] = "fast_read"]
  /\ UNCHANGED <<cached, aggregates, jsonData, wOff, fnResult, result, response,
                 lockState, cacheFile, source, disk, ingestCount, written, wokenBy>>
  /\ UNCHANGED notCacheVars

\* fs.readFile of the fast path completes; readCache returns
FastReadDone(c) ==
  /\ pc[c] = "fast_read"
  /\ cached' = [cached EXCEPT ![c] = readCache(cacheFile)]
  /\ pc' = [pc EXCEPT ![c] = "fast_check"]
  /\ UNCHANGED <<aggregates, jsonData, wOff, fnResult, result, response,
                 lockState, cacheFile, source, disk, ingestCount, written, wokenBy>>
  /\ UNCHANGED notCacheVars

\* getCacheOrBuild, lines 130-138: return the snapshot, or call
\* withCacheLock, whose first statement runs acquire() synchronously
FastCheck(c) ==
  /\ pc[c] = "fast_check"
  /\ IF ~cached[c].isNull
       THEN /\ result' = [result EXCEPT ![c] = Ok(cached[c].data)]
            /\ pc' = [pc EXCEPT ![c] = "returned"]
            /\ UNCHANGED lockState
       ELSE /\ lockState' = acquire(lockState).state
            /\ pc' = [pc EXCEPT ![c] = acquire(lockState).to]
            /\ UNCHANGED result
  /\ UNCHANGED <<cached, aggregates, jsonData, wOff, fnResult, response,
                 cacheFile, source, disk, ingestCount, written, wokenBy>>
  /\ UNCHANGED notCacheVars

\* a woken waiter that takes the lock for granted instead of acquiring again
RetryAcquireNoLoop(c) ==
  /\ pc[c] = "woken"
  /\ pc' = [pc EXCEPT ![c] = "acquired"]
  /\ UNCHANGED <<cached, aggregates, jsonData, wOff, fnResult, result, response,
                 lockState, cacheFile, source, disk, ingestCount, written, wokenBy>>
  /\ UNCHANGED notCacheVars

\* acquire, lines 154-156: the awaited promise was resolved; acquire again
RetryAcquire(c) ==
  /\ pc[c] = "woken"
  /\ lockState' = acquire(lockState).state
  /\ pc' = [pc EXCEPT ![c] = acquire(lockState).to]
  /\ UNCHANGED <<cached, aggregates, jsonData, wOff, fnResult, result, response,
                 cacheFile, source, disk, ingestCount, written, wokenBy>>
  /\ UNCHANGED notCacheVars

\* withCacheLock, line 195: fn() starts and issues the re-check read
EnterLocked(c) ==
  /\ pc[c] = "acquired"
  /\ pc' = [pc EXCEPT ![c] = "lk_read"]
  /\ UNCHANGED <<cached, aggregates, jsonData, wOff, fnResult, result, response,
                 lockState, cacheFile, source, disk, ingestCount, written, wokenBy>>
  /\ UNCHANGED notCacheVars

\* fs.readFile of the re-check completes
LockedReadDone(c) ==
  /\ pc[c] = "lk_read"
  /\ cached' = [cached EXCEPT ![c] = readCache(cacheFile)]
  /\ pc' = [pc EXCEPT ![c] = "lk_check"]
  /\ UNCHANGED <<aggregates, jsonData, wOff, fnResult, result, response,
                 lockState, cacheFile, source, disk, ingestCount, written, wokenBy>>
  /\ UNCHANGED notCacheVars

\* the locked section without the re-check of the snapshot
LockedCheckNoRecheck(c) ==
  /\ pc[c] = "lk_check"
  /\ pc' = [pc EXCEPT ![c] = "ingest"]
  /\ ingestCount' = ingestCount + 1
  /\ UNCHANGED <<cached, aggregates, jsonData, wOff, fnResult, result, response,
                 lockState, cacheFile, source, disk, written, wokenBy>>
  /\ UNCHANGED notCacheVars

\* getCacheOrBuild, lines 141-149: return the snapshot another request
\* built, or start the ingest -> aggregate pass
LockedCheck(c) ==
  /\ pc[c] = "lk_check"
  /\ IF ~cached[c].isNull
       THEN /\ fnResult' = [fnResult EXCEPT ![c] = Ok(cached[c].data)]
            /\ pc' = [pc EXCEPT ![c] = "lk_exit"]
            /\ UNCHANGED ingestCount
       ELSE /\ pc' = [pc EXCEPT ![c] = "ingest"]
            /\ ingestCount' = ingestCount + 1
            /\ UNCHANGED fnResult
  /\ UNCHANGED <<cached, aggregates, jsonData, wOff, result, response,
                 lockState, cacheFile, source, disk, written, wokenBy>>
  /\ UNCHANGED notCacheVars

\* buildDailyAggregates(streamParseCSV(..)) settles; on success writeCache
\* is called and issues fs.mkdir
IngestDone(c) ==
  /\ pc[c] = "ingest"
  /\ LET b == BuildOf[source]
     IN  IF b.err = NoError
           THEN /\ aggregates' = [aggregates EXCEPT ![c] = b.data]
                /\ written' = written \cup {b.data}
                /\ pc' = [pc EXCEPT ![c] = "write_mkdir"]
                /\ UNCHANGED fnResult
           ELSE /\ fnResult' = [fnResult EXCEPT ![c] = Fail(WrapBuildError(b.err))]
                /\ pc' = [pc EXCEPT ![c] = "lk_exit"]
                /\ UNCHANGED <<aggregates, written>>
  /\ UNCHANGED <<cached, jsonData, wOff, result, response,
                 lockState, cacheFile, source, disk, ingestCount, wokenBy>>
  /\ UNCHANGED notCacheVars

\* writeCache, lines 80-91: fs.mkdir settles; on success the text is
\* serialized and fs.writeFile is issued
WriteMkdir(c) ==
  /\ pc[c] = "write_mkdir"
  /\ IF disk = "nodir"
       THEN /\ fnResult' = [fnResult EXCEPT ![c] =
                 Fail(WrapBuildError(WrapWriteError(Error("EACCES", <<"EACCES: permission denied, mkdir <path>">>))))]
            /\ pc' = [pc EXCEPT ![c] = "lk_exit"]
            /\ UNCHANGED jsonData
       ELSE /\ jsonData' = [jsonData EXCEPT ![c] = Stringify(aggregates[c])]
            /\ pc' = [pc EXCEPT ![c] = "write_open"]
            /\ UNCHANGED fnResult
  /\ UNCHANGED <<cached, aggregates, wOff, result, response,
                 lockState, cacheFile, source, disk, ingestCount, written, wokenBy>>
  /\ UNCHANGED notCacheVars

\* fs.writeFile opens the file with flag 'w': created or cut to length 0
WriteOpen(c) ==
  /\ pc[c] = "write_open"
  /\ cacheFile' = File(<< >>)
  /\ wOff' = [wOff EXCEPT ![c] = 0]
  /\ pc' = [pc EXCEPT ![c] = "writing"]
  /\ UNCHANGED <<cached, aggregates, jsonData, fnResult, result, response,
                 lockState, source, disk, ingestCount, written, wokenBy>>
  /\ UNCHANGED notCacheVars

\* fs.writeFile writes its next chunk, or fails with ENOSPC; after the last
\* chunk writeCache returns and fn() returns the aggregates.  The chunks of
\* a writer whose file has been unlinked go to a file without a name.
WriteChunk(c) ==
  /\ pc[c] = "writing"
  /\ IF disk = "full" /\ wOff[c] >= 1
       THEN /\ fnResult' = [fnResult EXCEPT ![c] =
                 Fail(WrapBuildError(WrapWriteError(Error("ENOSPC", <<"ENOSPC: no space left on device, write">>))))]
            /\ pc' = [pc EXCEPT ![c] = "lk_exit"]
            /\ UNCHANGED <<cacheFile, wOff>>
       ELSE /\ cacheFile' = IF c \in detached
                             THEN cacheFile
                             ELSE File(WriteAt(cacheFile.text, wOff[c], jsonData[c][wOff[c] + 1]))
            /\ wOff' = [wOff EXCEPT ![c] = wOff[c] + 1]
            /\ IF wOff[c] + 1 = Len(jsonData[c])
                 THEN /\ fnResult' = [fnResult EXCEPT ![c] = Ok(aggregates[c])]
                      /\ pc' = [pc EXCEPT ![c] = "lk_exit"]
                 ELSE UNCHANGED <<fnResult, pc>>
  /\ UNCHANGED <<cached, aggregates, jsonData, result, response,
                 lockState, source, disk, ingestCount, written, wokenBy>>
  /\ UNCHANGED notCacheVars

\* withCacheLock releasing after a normal return only (no finally)
ReleaseOnSuccessOnly(c) ==
  /\ pc[c] = "lk_exit"
  /\ IF fnResult[c].kind = "ok"
       THEN /\ pc' = [Resolve(lockState, pc) EXCEPT ![c] = "returned"]
            /\ lockState' = release(lockState)
       ELSE /\ pc' = [pc EXCEPT ![c] = "returned"]
            /\ UNCHANGED lockState
  /\ wokenBy' = [w \in Callers |-> IF pc'[w] = "woken" /\ pc[w] = "waiting" THEN fnResult[c].kind ELSE wokenBy[w]]
  /\ result' = [result EXCEPT ![c] = fnResult[c]]
  /\ fnResult' = [fnResult EXCEPT ![c] = Pending]
  /\ UNCHANGED <<cached, aggregates, jsonData, wOff, response,
                 cacheFile, source, disk, ingestCount, written>>
  /\ UNCHANGED notCacheVars

\* withCacheLock, lines 197-199: finally releases the lock, then the
\* outcome of fn() becomes the outcome of getCacheOrBuild
Release(c) ==
  /\ pc[c] = "lk_exit"
  /\ pc' = [Resolve(lockState, pc) EXCEPT ![c] = "returned"]
  /\ wokenBy' = [w \in Callers |->
                   IF Resolve(lockState, pc)[w] # pc[w] THEN fnResult[c].kind ELSE wokenBy[w]]
  /\ lockState' = release(lockState)
  /\ result' = [result EXCEPT ![c] = fnResult[c]]
  /\ fnResult' = [fnResult EXCEPT ![c] = Pending]
  /\ UNCHANGED <<cached, aggregates, jsonData, wOff, response,
                 cacheFile, source, disk, ingestCount, written>>
  /\ UNCHANGED notCacheVars

\* GET, lines 153-215: the handler resumes with the aggregates or in its
\* catch block and sends the response; its locals go out of scope
Respond(c) ==
  /\ pc[c] = "returned"
  /\ response' = [response EXCEPT ![c] = GETResponse(result[c])]
  /\ pc' = [pc EXCEPT ![c] = "done"]
  /\ cached' = [cached EXCEPT ![c] = Null]
  /\ aggregates' = [aggregates EXCEPT ![c] = << >>]
  /\ jsonData' = [jsonData EXCEPT ![c] = << >>]
  /\ wOff' = [wOff EXCEPT ![c] = 0]
  /\ UNCHANGED <<fnResult, result, lockState, cacheFile, source, disk,
                 ingestCount, written, wokenBy>>
  /\ UNCHANGED notCacheVars

Next ==
  \E c \in Callers :
    \/ Call(c)
    \/ FastReadDone(c)
    \/ FastCheck(c)
    \/ RetryAcquire(c)
    \/ EnterLocked(c)
    \/ LockedReadDone(c)
    \/ LockedCheck(c)
    \/ IngestDone(c)
    \/ WriteMkdir(c)
    \/ WriteOpen(c)
    \/ WriteChunk(c)
    \/ Release(c)
    \/ Respond(c)

Spec == Init /\ [][Next]_vars

\* cold start: no snapshot file exists yet
InitCold == Init /\ cacheFile = NoFile

SpecCold == InitCold /\ [][Next]_vars

(***************************************************************************)
(* Fair scheduling.  Once a request has arrived, the event loop runs each  *)
(* of its continuations that is ready, and each file operation and each    *)
(* ingest -> aggregate pass it has started settles.  Nothing obliges a     *)
(* request to arrive, and a caller awaiting the lock's promise has no step *)
(* of its own.                                                             *)
(***************************************************************************)
Serve(c) ==
  \/ FastReadDone(c)
  \/ FastCheck(c)
  \/ RetryAcquire(c)
  \/ EnterLocked(c)
  \/ LockedReadDone(c)
  \/ LockedCheck(c)
  \/ IngestDone(c)
  \/ WriteMkdir(c)
  \/ WriteOpen(c)
  \/ WriteChunk(c)
  \/ Release(c)
  \/ Respond(c)

\* cold start with a source whose rebuild succeeds or fails, on each
\* condition of the cache directory
InitLive == InitCold /\ source \in {"valid1", "corrupt"}

SpecLive == InitLive /\ [][Next]_vars /\ \A c \in Callers : WF_vars(Serve(c))

(***************************************************************************)
(* POST /api/upload: the handler writes the uploaded file over the CSV     *)
(* file and then unlinks the snapshot file, without taking the rebuild     *)
(* lock.  The upload replaces the content "valid1" by "valid2".            *)
(***************************************************************************)
OldSource == "valid1"

NewSource == "valid2"

\* the process serves requests when the upload arrives: no snapshot has
\* been written yet; the cache directory can be written
InitUpload ==
  /\ Init
  /\ source = OldSource
  /\ disk = "ok"
  /\ cacheFile = NoFile

\* POST /api/upload, lines 22-68: the request arrives, is validated and
\* fs.writeFile(csvPath, buffer) completes
UploadWrite ==
  /\ upPc = "off"
  /\ source' = NewSource
  /\ upPc' = "written"
  /\ UNCHANGED <<pc, cached, aggregates, jsonData, wOff, fnResult, result, response,
                 lockState, cacheFile, disk, ingestCount, written, wokenBy>>
  /\ UNCHANGED <<detached, lateCallers>>
  /\ UNCHANGED <<sumVars, ingVars, filtVars, limVars, insVars>>

\* POST /api/upload, lines 70-84: fs.unlink(cachePath) settles and the
\* success response is sent.  While a writer has the file open the unlink
\* removes the name and leaves the writer with the nameless file, or fails
\* (the error is ignored), depending on the platform.
UploadUnlink ==
  /\ upPc = "written"
  /\ upPc' = "done"
  /\ lateCallers' = {c \in Callers : pc[c] = "idle"}
  /\ \/ /\ cacheFile' = NoFile
        /\ detached' = detached \cup {c \in Callers : pc[c] = "writing"}
     \/ /\ \E c \in Callers : pc[c] = "writing"
        /\ UNCHANGED <<cacheFile, detached>>
  /\ UNCHANGED <<pc, cached, aggregates, jsonData, wOff, fnResult, result, response,
                 lockState, source, disk, ingestCount, written, wokenBy>>
  /\ UNCHANGED <<sumVars, ingVars, filtVars, limVars, insVars>>

NextUpload ==
  \/ Next
  \/ UploadWrite
  \/ UploadUnlink

SpecUpload == InitUpload /\ [][NextUpload]_vars

TypeOK ==
  /\ \A c \in Callers : pc[c] \in {"idle", "fast_read", "fast_check", "waiting", "woken",
                                    "acquired", "lk_read", "lk_check", "ingest", "write_mkdir",
                                    "write_open", "writing", "lk_exit", "returned", "done"}
  /\ ingestCount \in 0..NCallers

(***************************************************************************)
(* lib/insights-builder.ts: the range summarizer.  A record of a series is *)
(* a DailyAggregate reduced to the fields the summarizer's click           *)
(* statistics read: date and clicks.                                       *)
(***************************************************************************)
Agg(d, c) == [date |-> d, clicks |-> c]

\* clicks.reduce((sum, val) => sum + val, 0) over s[lo..hi]
RECURSIVE SumClicks(_, _, _)
SumClicks(s, lo, hi) ==
  IF lo > hi THEN 0
  ELSE IF lo = hi THEN s[lo].clicks
  ELSE SumClicks(s, lo, (lo + hi) \div 2) + SumClicks(s, ((lo + hi) \div 2) + 1, hi)

\* n * (val - mean), an integer: mean = Sum / n
Dev(s, val) == Len(s) * val - SumClicks(s, 1, Len(s))

\* n * n * sum of squaredDiffs, over s[lo..hi]
RECURSIVE SumSqDev(_, _, _, _)
SumSqDev(s, total, lo, hi) ==
  IF lo > hi THEN 0
  ELSE IF lo = hi THEN (Len(s) * s[lo].clicks - total) * (Len(s) * s[lo].clicks - total)
  ELSE SumSqDev(s, total, lo, (lo + hi) \div 2) + SumSqDev(s, total, ((lo + hi) \div 2) + 1, hi)

\* the peak/trough scan in which the last of several equal records wins
TrendStepLastWins(acc, agg) ==
  [peakDay |-> IF agg.clicks >= acc.peakDay.clicks THEN agg ELSE acc.peakDay,
   troughDay |-> IF agg.clicks <= acc.troughDay.clicks THEN agg ELSE acc.troughDay]

\* calculateTrends, lines 156-163: one pass of the peak/trough scan
TrendStep(acc, agg) ==
  [peakDay |-> IF agg.clicks > acc.peakDay.clicks THEN agg ELSE acc.peakDay,
   troughDay |-> IF agg.clicks < acc.troughDay.clicks THEN agg ELSE acc.troughDay]

\* the scan over sorted[lo..hi] in order
RECURSIVE TrendScan(_, _, _, _)
TrendScan(sorted, lo, hi, acc) ==
  IF lo > hi THEN acc
  ELSE IF lo = hi THEN TrendStep(acc, sorted[lo])
  ELSE LET left == TrendScan(sorted, lo, (lo + hi) \div 2, acc)
       IN  IF left.peakDay.clicks < left.troughDay.clicks THEN left
           ELSE TrendScan(sorted, ((lo + hi) \div 2) + 1, hi, left)

\* calculateTrends, lines 169-181: one pass of the day-to-day loop, curr
\* being sorted[i] and prev sorted[i - 1] (1-based)
DeltaStep(sorted, acc, i) ==
  LET change == sorted[i].clicks - sorted[i - 1].clicks
  IN  [biggestSpike |-> IF change > acc.biggestSpike.change
                          THEN [date |-> sorted[i].date, change |-> change]
                          ELSE acc.biggestSpike,
       biggestDrop |-> IF change < acc.biggestDrop.change
                         THEN [date |-> sorted[i].date, change |-> change]
                         ELSE acc.biggestDrop]

\* the loop over i = lo..hi in order
RECURSIVE DeltaScan(_, _, _, _)
DeltaScan(sorted, lo, hi, acc) ==
  IF lo > hi THEN acc
  ELSE IF lo = hi THEN DeltaStep(sorted, acc, lo)
  ELSE LET left == DeltaScan(sorted, lo, (lo + hi) \div 2, acc)
       IN  IF left.biggestSpike.change < 0 THEN left
           ELSE DeltaScan(sorted, ((lo + hi) \div 2) + 1, hi, left)

\* calculateTrends, lines 112-197 (the percent changes clicksChange and
\* impressionsChange are left out)
calculateTrends(s) ==
  IF Len(s) = 0 THEN NoTrends
  ELSE LET sorted == SortByDate(s)
           day(agg) == [date |-> agg.date, clicks |-> agg.clicks]
       IN  IF Len(sorted) = 1
             THEN [peakDay |-> day(sorted[1]),
                   troughDay |-> day(sorted[1]),
                   biggestSpike |-> NoTrends.biggestSpike,
                   biggestDrop |-> NoTrends.biggestDrop]
             ELSE LET pt == TrendScan(sorted, 1, Len(sorted),
                                      [peakDay |-> sorted[1], troughDay |-> sorted[1]])
                      sd == DeltaScan(sorted, 2, Len(sorted),
                                      [biggestSpike |-> NoTrends.biggestSpike,
                                       biggestDrop |-> NoTrends.biggestDrop])
                  IN  [peakDay |-> day(pt.peakDay),
                       troughDay |-> day(pt.troughDay),
                       biggestSpike |-> sd.biggestSpike,
                       biggestDrop |-> sd.biggestDrop]

\* the test with the threshold 1 in place of 2
ZScoreAbove1(n, dev, sqDev) == n * dev * dev > sqDev

\* Math.abs(zScore) > 2 with zScore = (clicks - mean) / stdDev and
\* stdDev = sqrt(sum of squaredDiffs / n):
\*   |dev| / n > 2 * sqrt(sqDev / n^3)   iff   n * dev^2 > 4 * sqDev
ZScoreAbove2(n, dev, sqDev) == n * dev * dev > 4 * sqDev

\* detectAnomalies flagging a z-score of exactly 2 as well
detectAnomaliesInclusive(s) ==
  IF Len(s) < 3 THEN << >>
  ELSE LET total == SumClicks(s, 1, Len(s))
           sqDev == SumSqDev(s, total, 1, Len(s))
       IN  IF sqDev = 0 THEN << >>
           ELSE SelectSeq(s, LAMBDA agg :
                  Len(s) * (Len(s) * agg.clicks - total) * (Len(s) * agg.clicks - total) >= 4 * sqDev)

\* detectAnomalies, lines 224-262 (the zScore field of an anomaly is left out)
detectAnomalies(s) ==
  IF Len(s) < 3 THEN << >>
  ELSE LET total == SumClicks(s, 1, Len(s))
           sqDev == SumSqDev(s, total, 1, Len(s))
       IN  IF sqDev = 0 THEN << >>
           ELSE SelectSeq(s, LAMBDA agg : ZScoreAbove2(Len(s), Len(s) * agg.clicks - total, sqDev))

\* Math.floor(n / m) in the place of Math.ceil
Floor(n, m) == n \div m

\* Math.ceil(n / m) for positive integers
Ceil(n, m) == (n + m - 1) \div m

\* downsampleSeries, lines 305-312: one pass of the scan, on 0-based indices
ScanStep(sorted, idx, i) ==
  [peakIdx |-> IF sorted[i + 1].clicks > sorted[idx.peakIdx + 1].clicks THEN i ELSE idx.peakIdx,
   troughIdx |-> IF sorted[i + 1].clicks < sorted[idx.troughIdx + 1].clicks THEN i ELSE idx.troughIdx]

\* the scan over the indices lo..hi in order, halved to keep the evaluation shallow
RECURSIVE ScanRange(_, _, _, _)
ScanRange(sorted, lo, hi, idx) ==
  IF lo > hi THEN idx
  ELSE IF lo = hi THEN ScanStep(sorted, idx, lo)
  ELSE LET left == ScanRange(sorted, lo, (lo + hi) \div 2, idx)
       IN  IF left.peakIdx < 0 THEN left
           ELSE ScanRange(sorted, ((lo + hi) \div 2) + 1, hi, left)

\* Array.from(sampled).sort((a, b) => a - b) for a set of indices below n
SortedIndices(set, n) == SelectSeq([i \in 1..n |-> i - 1], LAMBDA i : i \in set)

\* downsampleSeries, lines 293-341
downsampleSeries(s, maxPts) ==
  IF Len(s) <= maxPts THEN s
  ELSE LET sorted == SortByDate(s)
           n == Len(sorted)
           idx == ScanRange(sorted, 0, n - 1, [peakIdx |-> 0, troughIdx |-> 0])
           step == Ceil(n, maxPts)
           uniform == {k * step : k \in 0..((n - 1) \div step)}
           sampledSet == uniform \cup {0, n - 1, idx.peakIdx, idx.troughIdx}
           indices == SortedIndices(sampledSet, n)
           finalIndices == IF Len(indices) > maxPts THEN SubSeq(indices, 1, maxPts) ELSE indices
       IN  [k \in 1..Len(finalIndices) |-> sorted[finalIndices[k] + 1]]

(***************************************************************************)
(* Inputs of the summarizer.  A series comes from filterByDateRange of the *)
(* snapshot: sorted by date, one record per date.  Day k has date key k.   *)
(***************************************************************************)
ClickValues == {90, 100, 110, 120, 400}

\* a long series with its first maximum on day p and its first minimum on
\* day t; p = t gives the series of equal clicks
Shaped(n, p, t) ==
  [k \in 1..n |-> Agg(k, IF p = t THEN 100 ELSE IF k = p THEN 400 ELSE IF k = t THEN 90 ELSE 100)]

LongLengths == {maxPoints + 1, 2 * maxPoints}

NearEdge(n, k) == k <= EdgeDays \/ k > n - EdgeDays

CacheIdle ==
  /\ pc = [c \in Callers |-> "idle"]
  /\ cached = [c \in Callers |-> Null]
  /\ aggregates = [c \in Callers |-> << >>]
  /\ jsonData = [c \in Callers |-> << >>]
  /\ wOff = [c \in Callers |-> 0]
  /\ fnResult = [c \in Callers |-> Pending]
  /\ result = [c \in Callers |-> Pending]
  /\ response = [c \in Callers |-> NoResponse]
  /\ lockState = Unlocked
  /\ cacheFile = NoFile
  /\ source = "valid1"
  /\ disk = "ok"
  /\ ingestCount = 0
  /\ written = {}
  /\ wokenBy = [c \in Callers |-> "none"]

InitSum ==
  /\ CacheIdle
  /\ InsightsIdle
  /\ UploadIdle
  /\ \E n \in 0..MaxSeriesLen : \E f \in [1..n -> ClickValues] : series = [k \in 1..n |-> Agg(k, f[k])]
  /\ sumPc = "ready"
  /\ anomalies = << >>
  /\ trends = NoTrends
  /\ sampled = << >>
  /\ IngestIdle
  /\ FilterIdle
  /\ LimiterIdle

InitDown ==
  /\ CacheIdle
  /\ InsightsIdle
  /\ UploadIdle
  /\ \E n \in LongLengths : \E p, t \in 1..n : series = Shaped(n, p, t)
  /\ sumPc = "ready"
  /\ anomalies = << >>
  /\ trends = NoTrends
  /\ sampled = << >>
  /\ IngestIdle
  /\ FilterIdle
  /\ LimiterIdle

\* buildInsightsPayload, line 45
DetectAnomalies ==
  /\ sumPc = "ready"
  /\ anomalies' = detectAnomalies(series)
  /\ sumPc' = "detected"
  /\ UNCHANGED <<series, trends, sampled>>
  /\ UNCHANGED notSumVars

\* buildInsightsPayload, line 48
Downsample ==
  /\ sumPc = "ready"
  /\ sampled' = downsampleSeries(series, maxPoints)
  /\ sumPc' = "sampled"
  /\ UNCHANGED <<series, anomalies, trends>>
  /\ UNCHANGED notSumVars

\* buildInsightsPayload, line 42
CalculateTrends ==
  /\ sumPc = "ready"
  /\ trends' = calculateTrends(series)
  /\ sumPc' = "trended"
  /\ UNCHANGED <<series, anomalies, sampled>>
  /\ UNCHANGED notSumVars

NextSum == DetectAnomalies \/ CalculateTrends

SpecSum == InitSum /\ [][NextSum]_vars

NextDown == Downsample

SpecDown == InitDown /\ [][NextDown]_vars

InitYear ==
  /\ CacheIdle
  /\ InsightsIdle
  /\ UploadIdle
  /\ \E p, t \in 1..maxDays :
       /\ NearEdge(maxDays, p) \/ NearEdge(maxDays, t)
       /\ series = Shaped(maxDays, p, t)
  /\ sumPc = "ready"
  /\ anomalies = << >>
  /\ trends = NoTrends
  /\ sampled = << >>
  /\ IngestIdle
  /\ FilterIdle
  /\ LimiterIdle

SpecYear == InitYear /\ [][NextDown]_vars

(***************************************************************************)
(* The ingest -> aggregate pass on its own: streamParseCSV consumed by     *)
(* buildDailyAggregates, on inputs drawn from the row kinds below.         *)
(***************************************************************************)
Day1 == 20240101

Day2 == 20240102

Day3 == 20240103

\* data rows: three dates, rows of the same date with different
\* impressions, ctr and position, rows without impressions
DataRows ==
  { Row(Day1, 3, 10, 2, 4), Row(Day1, 4, 30, 1, 2), Row(Day1, 5, 0, 7, 9),
    Row(Day2, 5, 20, 1, 3), Row(Day2, 2, 0, 3, 5), Row(Day3, 1, 0, 5, 1) }

RowKinds == DataRows \cup {HeaderRow, BadRow}

\* an input around the error budget: bad rows without a date, with hdr
\* header rows after the first of them, between one optional data row at
\* the front and one at the end
BudgetRows(lead, bad, hdr, tail) ==
  (IF lead THEN <<Row(Day2, 5, 20, 1, 3)>> ELSE << >>)
    \o <<BadRow>> \o [i \in 1..hdr |-> HeaderRow] \o [i \in 1..(bad - 1) |-> BadRow]
    \o (IF tail THEN <<Row(Day1, 3, 10, 2, 4)>> ELSE << >>)

InitIngest ==
  /\ CacheIdle
  /\ InsightsIdle
  /\ UploadIdle
  /\ SumIdle
  /\ \/ \E n \in 0..MaxRows : \E f \in [1..n -> RowKinds] : rows = [k \in 1..n |-> f[k]]
     \/ \E lead, tail \in BOOLEAN : \E bad \in (maxErrors - 1)..(maxErrors + 2) : \E hdr \in 0..2 :
          rows = BudgetRows(lead, bad, hdr, tail)
  /\ stream = NoStream
  /\ built = NoBuild
  /\ ingPc = "ready"
  /\ FilterIdle
  /\ LimiterIdle

\* streamParseCSV runs over the records of the file
Ingest ==
  /\ ingPc = "ready"
  /\ stream' = ParseRows(rows)
  /\ ingPc' = "parsed"
  /\ UNCHANGED <<rows, built>>
  /\ UNCHANGED notIngVars

\* buildDailyAggregates settles
Aggregate ==
  /\ ingPc = "parsed"
  /\ built' = buildDailyAggregates(stream)
  /\ ingPc' = "built"
  /\ UNCHANGED <<rows, stream>>
  /\ UNCHANGED notIngVars

NextIngest == Ingest \/ Aggregate

SpecIngest == InitIngest /\ [][NextIngest]_vars

(***************************************************************************)
(* app/api/data/route.ts and app/api/insights/route.ts: filterByDateRange, *)
(* the same function in both routes.  A request's start and end are date   *)
(* keys; validateDateRange has rejected an end before the start.           *)
(***************************************************************************)
\* the filter with the end of the range excluded
filterByDateRangeOpenEnd(aggs, start, end) ==
  SelectSeq(aggs, LAMBDA agg : agg.date >= start /\ agg.date < end)

filterByDateRange(aggs, start, end) ==
  SelectSeq(aggs, LAMBDA agg : agg.date >= start /\ agg.date <= end)

\* the snapshot holds some of the days 1..MaxFilterDays, in date order
InitFilter ==
  /\ CacheIdle
  /\ InsightsIdle
  /\ UploadIdle
  /\ IngestIdle
  /\ \E days \in SUBSET (1..MaxFilterDays) :
       series = SelectSeq([k \in 1..MaxFilterDays |-> Agg(k, 100 + k)], LAMBDA agg : agg.date \in days)
  /\ sumPc = "off"
  /\ anomalies = << >>
  /\ trends = NoTrends
  /\ sampled = << >>
  /\ \E s, e \in 0..(MaxFilterDays + 1) : s <= e /\ range = [start |-> s, end |-> e]
  /\ filtered = << >>
  /\ refiltered = << >>
  /\ filtPc = "ready"
  /\ LimiterIdle

\* GET /api/data, line 156; POST /api/insights, line 135
Filter ==
  /\ filtPc = "ready"
  /\ filtered' = filterByDateRange(series, range.start, range.end)
  /\ filtPc' = "filtered"
  /\ UNCHANGED <<range, refiltered>>
  /\ UNCHANGED notFiltVars

\* the filter applied to its own result with the same bounds
FilterAgain ==
  /\ filtPc = "filtered"
  /\ refiltered' = filterByDateRange(filtered, range.start, range.end)
  /\ filtPc' = "refiltered"
  /\ UNCHANGED <<range, filtered>>
  /\ UNCHANGED notFiltVars

NextFilter == Filter \/ FilterAgain

SpecFilter == InitFilter /\ [][NextFilter]_vars

(***************************************************************************)
(* lib/security.ts: RateLimiter.  The clock counts ticks of TickMs         *)
(* milliseconds and tokens are counted in units of 1/TicksPerToken token,  *)
(* so that the refill of one tick is one unit.                             *)
(***************************************************************************)
TickMs == 60000 \div (refillPerMinute * TicksPerToken)

TokenUnit == TicksPerToken

\* a refill at twice the configured rate
tokensToAddTwice(elapsed) == (2 * elapsed * TickMs * refillPerMinute * TokenUnit) \div 60000

\* timeSinceRefill * this.refillRate, in units
tokensToAdd(elapsed) == (elapsed * TickMs * refillPerMinute * TokenUnit) \div 60000

Bucket(tokens, lastRefill) == [present |-> TRUE, tokens |-> tokens, lastRefill |-> lastRefill]

\* checkLimit that admits a call while any fraction of a token is left
checkLimitAnyToken(bks, id, t) ==
  LET bucket == IF bks[id].present THEN bks[id] ELSE Bucket(maxTokens * TokenUnit, t)
      refilled == Min(maxTokens * TokenUnit, bucket.tokens + tokensToAdd(t - bucket.lastRefill))
  IN  IF refilled > 0
        THEN [buckets |-> [bks EXCEPT ![id] = Bucket(refilled - Min(refilled, TokenUnit), t)], allowed |-> TRUE]
        ELSE [buckets |-> [bks EXCEPT ![id] = Bucket(refilled, t)], allowed |-> FALSE]

\* checkLimit, lines 108-131, called at time t
checkLimit(bks, id, t) ==
  LET bucket == IF bks[id].present THEN bks[id] ELSE Bucket(maxTokens * TokenUnit, t)
      refilled == Min(maxTokens * TokenUnit, bucket.tokens + tokensToAdd(t - bucket.lastRefill))
  IN  IF refilled >= TokenUnit
        THEN [buckets |-> [bks EXCEPT ![id] = Bucket(refilled - TokenUnit, t)], allowed |-> TRUE]
        ELSE [buckets |-> [bks EXCEPT ![id] = Bucket(refilled, t)], allowed |-> FALSE]

\* a sweep that removes every bucket that was not used at this very instant
cleanupIdle(bks, t) ==
  [id \in Ids |-> IF bks[id].present /\ (t - bks[id].lastRefill) * TickMs > 0
                    THEN NoBucket ELSE bks[id]]

\* cleanup, lines 136-145, run at time t
cleanup(bks, t) ==
  [id \in Ids |-> IF bks[id].present /\ (t - bks[id].lastRefill) * TickMs > maxAge
                    THEN NoBucket ELSE bks[id]]

\* the caller whose admissions are counted
Observed == 1

\* most calls a fresh caller makes at the instant of its first call: one
\* more than the capacity
MaxBurst == maxTokens + 1

\* a pause long enough for cleanup to remove a bucket
LongPause == (maxAge \div TickMs) + 1

InitLimiter ==
  /\ CacheIdle
  /\ InsightsIdle
  /\ UploadIdle
  /\ SumIdle
  /\ IngestIdle
  /\ FilterIdle
  /\ buckets = [id \in Ids |-> NoBucket]
  /\ now = 0
  /\ lastCheck = NoCheck
  /\ winStart \in 0..MaxTime
  /\ admittedIn = 0
  /\ callsNow = 0
  /\ admittedNow = 0
  /\ fresh = FALSE
  /\ otherCalls = 0
  /\ shadow = [id \in Ids |-> NoBucket]
  /\ shadowCheck = NoShadowCheck

\* POST /api/insights, lines 76-77: a request of caller id arrives
CheckLimit(id) ==
  /\ (id = Observed /\ fresh) => callsNow < MaxBurst
  /\ id # Observed => otherCalls < MaxOtherCalls
  /\ otherCalls' = IF id = Observed THEN otherCalls ELSE otherCalls + 1
  /\ LET r == checkLimit(buckets, id, now)
         n == IF r.allowed THEN 1 ELSE 0
     IN  /\ buckets' = r.buckets
         /\ lastCheck' = [id |-> id, before |-> buckets[id], at |-> now, allowed |-> r.allowed]
         /\ shadow' = checkLimit(shadow, id, now).buckets
         /\ shadowCheck' = [before |-> shadow[id], allowed |-> checkLimit(shadow, id, now).allowed]
         /\ IF id = Observed
              THEN /\ fresh' = (fresh \/ ~buckets[id].present)
                   /\ callsNow' = IF fresh' THEN callsNow + 1 ELSE 0
                   /\ admittedNow' = IF fresh' THEN admittedNow + n ELSE 0
                   /\ admittedIn' = IF now >= winStart THEN admittedIn + n ELSE admittedIn
              ELSE UNCHANGED <<callsNow, admittedNow, admittedIn, fresh>>
  /\ UNCHANGED <<now, winStart>>
  /\ UNCHANGED notLimVars

\* time passes: one tick, or one long pause
Advance ==
  /\ now <= MaxTime
  /\ \E dt \in {1, LongPause} :
       /\ dt = 1 => now < MaxTime
       /\ now' = now + dt
  /\ callsNow' = 0
  /\ admittedNow' = 0
  /\ fresh' = FALSE
  /\ lastCheck' = NoCheck
  /\ shadowCheck' = NoShadowCheck
  /\ UNCHANGED <<buckets, winStart, admittedIn, otherCalls, shadow>>
  /\ UNCHANGED notLimVars

\* the interval timer of the constructor, line 99, fires
Cleanup ==
  /\ buckets' = cleanup(buckets, now)
  /\ lastCheck' = NoCheck
  /\ shadowCheck' = NoShadowCheck
  /\ UNCHANGED <<now, winStart, admittedIn, callsNow, admittedNow, fresh, otherCalls, shadow>>
  /\ UNCHANGED notLimVars

NextLimiter ==
  \/ \E id \in Ids : CheckLimit(id)
  \/ Advance
  \/ Cleanup

SpecLimiter == InitLimiter /\ [][NextLimiter]_vars

(***************************************************************************)
(* Part 4: the analysis client (lib/claude-client.ts, generateInsights)    *)
(* and the handler of POST /api/insights around it.                        *)
(*                                                                         *)
(* A JSON value the external service can answer with.  An array is given   *)
(* by its length and by the element the validation loops stop at (any      *)
(* element when they stop at none); a string by its length.                *)
(***************************************************************************)
Str(len) == [isString |-> TRUE, len |-> len]

NotStr == [isString |-> FALSE, len |-> 0]

Arr(count, elem) == [isArray |-> TRUE, count |-> count, elem |-> elem]

\* a missing field, or a field that is not an array
NotArr == [isArray |-> FALSE, count |-> 0, elem |-> NotStr]

Anomaly(date, metric, change, explanation) ==
  [isObject |-> TRUE, date |-> date, metric |-> metric, change |-> change,
   explanation |-> explanation]

\* an entry of anomalies that is null or not an object
NotAnomaly ==
  [isObject |-> FALSE, date |-> NotStr, metric |-> NotStr, change |-> NotStr,
   explanation |-> NotStr]

Value(i, a, o, q) ==
  [isObject |-> TRUE, insights |-> i, anomalies |-> a, opportunities |-> o,
   questions |-> q]

\* null, a number, a string
NotObject ==
  [isObject |-> FALSE, insights |-> NotArr, anomalies |-> NotArr,
   opportunities |-> NotArr, questions |-> NotArr]

\* the validator's null
Valid == ""

\* a loop over a string array finds an element that is not a string of at
\* most maxTextLen characters
BadString(arr) == arr.count > 0 /\ (~arr.elem.isString \/ arr.elem.len > maxTextLen)

\* one of the four fields of an anomaly is not a string or is too long
BadField(arr, f, limit) == arr.count > 0 /\ (~arr.elem[f].isString \/ arr.elem[f].len > limit)

\* the validator without the bound on the number of anomalies
validateClaudeResponseNoAnomalyBound(rsp) ==
  IF ~rsp.isObject THEN "Response is not an object"
  ELSE IF ~rsp.insights.isArray THEN "Missing or invalid insights array"
  ELSE IF ~rsp.anomalies.isArray THEN "Missing or invalid anomalies array"
  ELSE IF ~rsp.opportunities.isArray THEN "Missing or invalid opportunities array"
  ELSE IF ~rsp.questions.isArray THEN "Missing or invalid questions array"
  ELSE IF rsp.insights.count > maxInsights THEN "Too many insights (max 20)"
  ELSE IF rsp.opportunities.count > maxOpportunities THEN "Too many opportunities (max 20)"
  ELSE IF rsp.questions.count > maxQuestions THEN "Too many questions (max 20)"
  ELSE IF BadString(rsp.insights) THEN "Invalid insight format or length"
  ELSE IF BadString(rsp.opportunities) THEN "Invalid opportunity format or length"
  ELSE IF BadString(rsp.questions) THEN "Invalid question format or length"
  ELSE IF rsp.anomalies.count > 0 /\ ~rsp.anomalies.elem.isObject THEN "Invalid anomaly format"
  ELSE IF BadField(rsp.anomalies, "date", maxDateLen) THEN "Invalid anomaly date"
  ELSE IF BadField(rsp.anomalies, "metric", maxMetricLen) THEN "Invalid anomaly metric"
  ELSE IF BadField(rsp.anomalies, "change", maxChangeLen) THEN "Invalid anomaly change"
  ELSE IF BadField(rsp.anomalies, "explanation", maxTextLen) THEN "Invalid anomaly explanation"
  ELSE Valid

\* lib/security.ts, validateClaudeResponse: the error message, or Valid
validateClaudeResponse(rsp) ==
  IF ~rsp.isObject THEN "Response is not an object"
  ELSE IF ~rsp.insights.isArray THEN "Missing or invalid insights array"
  ELSE IF ~rsp.anomalies.isArray THEN "Missing or invalid anomalies array"
  ELSE IF ~rsp.opportunities.isArray THEN "Missing or invalid opportunities array"
  ELSE IF ~rsp.questions.isArray THEN "Missing or invalid questions array"
  ELSE IF rsp.insights.count > maxInsights THEN "Too many insights (max 20)"
  ELSE IF rsp.anomalies.count > maxAnomalies THEN "Too many anomalies (max 50)"
  ELSE IF rsp.opportunities.count > maxOpportunities THEN "Too many opportunities (max 20)"
  ELSE IF rsp.questions.count > maxQuestions THEN "Too many questions (max 20)"
  ELSE IF BadString(rsp.insights) THEN "Invalid insight format or length"
  ELSE IF BadString(rsp.opportunities) THEN "Invalid opportunity format or length"
  ELSE IF BadString(rsp.questions) THEN "Invalid question format or length"
  ELSE IF rsp.anomalies.count > 0 /\ ~rsp.anomalies.elem.isObject THEN "Invalid anomaly format"
  ELSE IF BadField(rsp.anomalies, "date", maxDateLen) THEN "Invalid anomaly date"
  ELSE IF BadField(rsp.anomalies, "metric", maxMetricLen) THEN "Invalid anomaly metric"
  ELSE IF BadField(rsp.anomalies, "change", maxChangeLen) THEN "Invalid anomaly change"
  ELSE IF BadField(rsp.anomalies, "explanation", maxTextLen) THEN "Invalid anomaly explanation"
  ELSE Valid

(***************************************************************************)
(* The text of a response, after the markdown fence has been stripped:     *)
(* whether JSON.parse accepts it, the value it yields and the message of   *)
(* the SyntaxError it throws otherwise.                                    *)
(***************************************************************************)
Text(value) == [parses |-> TRUE, value |-> value, syntax |-> ""]

Garbled(syntax) == [parses |-> FALSE, value |-> NotObject, syntax |-> syntax]

\* parseInsightsResponse, lines 412-439
parseInsightsResponse(text) ==
  IF ~text.parses
    THEN Fail(Error("", <<"Failed to parse Claude response as JSON: ", text.syntax>>))
  ELSE IF validateClaudeResponse(text.value) # Valid
    THEN Fail(Error("", <<"Invalid response structure: ", validateClaudeResponse(text.value)>>))
  ELSE Ok(text.value)

(***************************************************************************)
(* Outcomes of one client.messages.create call.  cause names what went     *)
(* wrong, independently of the wording of the message.                     *)
(***************************************************************************)
Rejected(cause, name, phrase) ==
  [kind |-> "error", cause |-> cause, name |-> name, msg |-> <<phrase>>,
   type |-> "", text |-> Garbled("")]

Message(cause, type, text) ==
  [kind |-> "message", cause |-> cause, name |-> "", msg |-> << >>,
   type |-> type, text |-> text]

\* a response with every array and every string at its bound
AtBounds ==
  Value(Arr(maxInsights, Str(maxTextLen)),
        Arr(maxAnomalies, Anomaly(Str(maxDateLen), Str(maxMetricLen), Str(maxChangeLen),
                                  Str(maxTextLen))),
        Arr(maxOpportunities, Str(maxTextLen)),
        Arr(maxQuestions, Str(maxTextLen)))

NoItems == Value(Arr(0, NotStr), Arr(0, NotAnomaly), Arr(0, NotStr), Arr(0, NotStr))

\* string arrays that break one rule
BadStrings(limit) ==
  { NotArr, Arr(limit + 1, Str(1)), Arr(1, Str(maxTextLen + 1)), Arr(1, NotStr) }

\* anomaly arrays that break one rule
BadAnomalies ==
  { NotArr,
    Arr(maxAnomalies + 1, Anomaly(Str(1), Str(1), Str(1), Str(1))),
    Arr(1, NotAnomaly),
    Arr(1, Anomaly(NotStr, Str(1), Str(1), Str(1))),
    Arr(1, Anomaly(Str(maxDateLen + 1), Str(1), Str(1), Str(1))),
    Arr(1, Anomaly(Str(1), Str(maxMetricLen + 1), Str(1), Str(1))),
    Arr(1, Anomaly(Str(1), Str(1), Str(maxChangeLen + 1), Str(1))),
    Arr(1, Anomaly(Str(1), Str(1), Str(1), Str(maxTextLen + 1))) }

GoodValues == {AtBounds, NoItems}

BadValues ==
  {NotObject}
    \cup {[AtBounds EXCEPT !.insights = a] : a \in BadStrings(maxInsights)}
    \cup {[AtBounds EXCEPT !.anomalies = a] : a \in BadAnomalies}
    \cup {[AtBounds EXCEPT !.opportunities = a] : a \in BadStrings(maxOpportunities)}
    \cup {[AtBounds EXCEPT !.questions = a] : a \in BadStrings(maxQuestions)}

\* messages of the SyntaxError of JSON.parse; the position of the offending
\* character is part of the message
SyntaxMessages ==
  { "Unexpected token < in JSON at position 0",
    "Unexpected token } in JSON at position 429" }

Outcomes ==
  { Rejected("timeout", "AbortError", "Request was aborted."),
    Rejected("timeout", "Error", "Request was aborted."),
    Rejected("transport", "Error", "Connection error."),
    Rejected("server", "Error", "500 api_error"),
    Rejected("quota", "Error", "429 rate_limit_error"),
    Rejected("auth", "Error", "401 authentication_error"),
    Rejected("empty", "TypeError", "Cannot read properties of undefined (reading 'type')"),
    Message("nontext", "tool_use", Garbled("")) }
    \cup {Message("ok", "text", Text(v)) : v \in GoodValues}
    \cup {Message("invalid", "text", Text(v)) : v \in BadValues}
    \cup {Message("syntax", "text", Garbled(s)) : s \in SyntaxMessages}

\* generateInsights, lines 262-295: the try block of one attempt
tryAttempt(out) ==
  IF out.kind = "error" THEN Fail(Error(out.name, out.msg))
  ELSE IF out.type # "text" THEN Fail(Error("", <<"Unexpected response type from Claude API">>))
  ELSE parseInsightsResponse(out.text)

QuotaError == Error("", <<"AI service rate limit exceeded. Please try again later.">>)

AuthError == Error("", <<"AI service authentication failed. Please check API key configuration.">>)

\* the catch block that retries after an authentication failure
catchAttemptRetryAuth(error) ==
  LET last == IF error.code = "AbortError"
                THEN Error("", <<"Request aborted: The AI service request timed out after 30 seconds">>)
                ELSE Error("", error.msg)
  IN  IF Includes(last.msg, "429") \/ Includes(last.msg, "rate_limit")
        THEN [throw |-> TRUE, err |-> QuotaError, lastError |-> last]
      ELSE [throw |-> FALSE, err |-> NoError, lastError |-> last]

\* generateInsights, lines 297-315: the catch block up to the retry decision.
\* The code field of an error holds its name.
catchAttempt(error) ==
  LET last == IF error.code = "AbortError"
                THEN Error("", <<"Request aborted: The AI service request timed out after 30 seconds">>)
                ELSE Error("", error.msg)
  IN  IF Includes(last.msg, "429") \/ Includes(last.msg, "rate_limit")
        THEN [throw |-> TRUE, err |-> QuotaError, lastError |-> last]
      ELSE IF Includes(last.msg, "401") \/ Includes(last.msg, "authentication")
        THEN [throw |-> TRUE, err |-> AuthError, lastError |-> last]
      ELSE [throw |-> FALSE, err |-> NoError, lastError |-> last]

\* a loop that runs one attempt more
LoopContinuesOnceMore(att) == att <= maxRetries + 1

\* line 261: attempt <= maxRetries
LoopContinues(att) == att <= maxRetries

\* line 319: attempt < maxRetries
WaitsBeforeRetry(att) == att < maxRetries

\* lines 328-330
AllRetriesFailed(last) == Error("", <<"Failed to generate insights after 2 attempts: ">> \o last.msg)

KeyMissing == Error("", <<"ANTHROPIC_API_KEY environment variable is not set">>)

(***************************************************************************)
(* app/api/insights/route.ts: the handler of POST.  A date of the body is  *)
(* a date key, EmptyDate for a missing or empty field, InvalidDate for a   *)
(* string new Date() cannot read.                                          *)
(***************************************************************************)
InvalidDate == -2

\* days from 1970-01-01 to the date of a key: new Date(key).getTime() in days
DayNumber(key) ==
  LET y0 == key \div 10000
      m == (key \div 100) % 100
      d == key % 100
      y == IF m <= 2 THEN y0 - 1 ELSE y0
      era == y \div 400
      yoe == y - era * 400
      mp == IF m > 2 THEN m - 3 ELSE m + 9
      doy == (153 * mp + 2) \div 5 + d - 1
      doe == yoe * 365 + yoe \div 4 - yoe \div 100 + doy
  IN  era * 146097 + doe - 719468

\* lib/security.ts, validateDateRange: the error message, or Valid
validateDateRange(startDate, endDate, limit) ==
  IF startDate = InvalidDate \/ endDate = InvalidDate THEN "Invalid date format"
  ELSE IF DayNumber(endDate) < DayNumber(startDate)
    THEN "End date must be greater than or equal to start date"
  ELSE IF DayNumber(endDate) - DayNumber(startDate) > limit
    THEN "Date range exceeds maximum of 365 days"
  ELSE Valid

\* the size test that lets one more character through
PayloadTooLargeLax(size) == size > PayloadLimit + 1

\* POST, line 151
PayloadTooLarge(size) == size > PayloadLimit

Reply(status, error) == [status |-> status, error |-> error, details |-> <<"fixed">>]

\* POST, lines 168-262: the catch block
POSTResponse(err) ==
  IF Includes(err.msg, "ANTHROPIC_API_KEY")
    THEN Reply(500, "AI service is not configured properly.")
  ELSE IF Includes(err.msg, "aborted") \/ Includes(err.msg, "timeout")
    THEN Reply(500, "AI service request timed out.")
  ELSE IF Includes(err.msg, "Failed to generate insights after")
    THEN Reply(500, "Failed to generate insights after multiple attempts.")
  ELSE IF Includes(err.msg, "Failed to parse Claude response")
    THEN Reply(500, "Received invalid response from AI service.")
  ELSE IF Includes(err.msg, "Invalid response structure")
    THEN Reply(500, "Received invalid response from AI service.")
  ELSE IF Includes(err.msg, "CSV file not found")
    THEN Reply(500, "Data source not found.")
  ELSE IF Includes(err.msg, "rate_limit") \/ Includes(err.msg, "429")
    THEN Reply(429, "AI service rate limit exceeded.")
  ELSE Reply(500, "An unexpected error occurred while generating insights.")

\* outcomes of getCacheOrBuild: a snapshot, or the error of a failed rebuild
CacheOutcomes ==
  { Ok(OldSnapshot),
    Fail(WrapBuildError(WrapWriteError(Error("EACCES", <<"EACCES: permission denied, mkdir <path>">>)))) }
    \cup { LET b == BuildOf[s]
           IN  IF b.err = NoError THEN Ok(b.data) ELSE Fail(WrapBuildError(b.err))
           : s \in InitialSources }

\* lengths of the serialized payload around the limit
PayloadSizes == {PayloadLimit - 1, PayloadLimit, PayloadLimit + 1}

StartDates == {EmptyDate, InvalidDate, 20240101, 20240103}

EndDates == {EmptyDate, InvalidDate, 20231231, 20240102, 20241231, 20250101}

\* the caller's bucket when the request arrives: none, empty, half a token,
\* one token
ArrivalBuckets ==
  {NoBucket, Bucket(0, 0), Bucket(TokenUnit - 1, 0), Bucket(TokenUnit, 0)}

InitInsights ==
  /\ CacheIdle
  /\ SumIdle
  /\ IngestIdle
  /\ FilterIdle
  /\ \E b \in ArrivalBuckets : buckets = [id \in Ids |-> IF id = Observed THEN b ELSE NoBucket]
  /\ now = 0
  /\ lastCheck = NoCheck
  /\ winStart = 0
  /\ admittedIn = 0
  /\ callsNow = 0
  /\ admittedNow = 0
  /\ fresh = FALSE
  /\ otherCalls = 0
  /\ shadow = [id \in Ids |-> NoBucket]
  /\ shadowCheck = NoShadowCheck
  /\ postPc = "ready"
  /\ apiKey \in BOOLEAN
  /\ \/ body = NoBody
     \/ \E s \in StartDates, e \in EndDates : body = [json |-> TRUE, startDate |-> s, endDate |-> e]
  /\ payloadSize = 0
  /\ attempt = 0
  /\ lastError = NoError
  /\ insights = Pending
  /\ caught = NoError
  /\ postResponse = NoResponse
  /\ admitted = FALSE
  /\ validated = FALSE
  /\ sliceLen = -1
  /\ cacheCalls = 0
  /\ extCalls = 0
  /\ backoffs = 0
  /\ failures = << >>
  /\ UploadIdle

\* POST, lines 76-97: the limiter decides; an admitted request reads its body
PostArrive ==
  /\ postPc = "ready"
  /\ LET r == checkLimit(buckets, Observed, now)
     IN  /\ buckets' = r.buckets
         /\ admitted' = r.allowed
         /\ IF r.allowed
              THEN /\ postPc' = "body"
                   /\ UNCHANGED postResponse
              ELSE /\ postPc' = "done"
                   /\ postResponse' = Reply(429, "Rate limit exceeded")
  /\ UNCHANGED <<now, lastCheck, winStart, admittedIn, callsNow, admittedNow, fresh, otherCalls,
                 shadow, shadowCheck>>
  /\ UNCHANGED <<apiKey, body, payloadSize, attempt, lastError, insights, caught,
                 validated, sliceLen, cacheCalls, extCalls, backoffs, failures>>
  /\ UNCHANGED notInsVars

\* POST, lines 98-132: the body is validated; getCacheOrBuild is called
PostValidate ==
  /\ postPc = "body"
  /\ LET dateRangeError == validateDateRange(body.startDate, body.endDate, maxDays)
         reject == IF ~body.json THEN "Invalid JSON in request body"
                   ELSE IF body.startDate = EmptyDate THEN "Missing required field: startDate"
                   ELSE IF body.endDate = EmptyDate THEN "Missing required field: endDate"
                   ELSE dateRangeError
     IN  IF reject # Valid
           THEN /\ postResponse' = [status |-> 400, error |-> reject, details |-> << >>]
                /\ postPc' = "done"
                /\ UNCHANGED <<validated, cacheCalls>>
           ELSE /\ validated' = TRUE
                /\ cacheCalls' = cacheCalls + 1
                /\ postPc' = "cache"
                /\ UNCHANGED postResponse
  /\ UNCHANGED <<apiKey, body, payloadSize, attempt, lastError, insights, caught,
                 admitted, sliceLen, extCalls, backoffs, failures>>
  /\ UNCHANGED <<limVars, notInsVars>>

\* POST, lines 132-163, and generateInsights, lines 242-283: getCacheOrBuild
\* settles; the slice is cut and measured; generateInsights starts and
\* issues its first call
PostCacheDone ==
  /\ postPc = "cache"
  /\ \E res \in CacheOutcomes : \E size \in PayloadSizes :
       IF res.kind = "err"
         THEN /\ caught' = res.err
              /\ postPc' = "caught"
              /\ UNCHANGED <<payloadSize, sliceLen, extCalls, postResponse>>
       ELSE LET filteredSeries == filterByDateRange(res.data, body.startDate, body.endDate)
            IN  /\ sliceLen' = Len(filteredSeries)
                /\ IF Len(filteredSeries) = 0
                     THEN /\ postResponse' = [status |-> 400,
                                              error |-> "No data available for the selected date range",
                                              details |-> << >>]
                          /\ postPc' = "done"
                          /\ UNCHANGED <<payloadSize, caught, extCalls>>
                   ELSE /\ payloadSize' = size
                        /\ IF PayloadTooLarge(size)
                             THEN /\ postResponse' = Reply(400, "Date range too large")
                                  /\ postPc' = "done"
                                  /\ UNCHANGED <<caught, extCalls>>
                           ELSE IF ~apiKey
                             THEN /\ caught' = KeyMissing
                                  /\ postPc' = "caught"
                                  /\ UNCHANGED <<postResponse, extCalls>>
                           ELSE /\ extCalls' = extCalls + 1
                                /\ postPc' = "attempt"
                                /\ UNCHANGED <<postResponse, caught>>
  /\ UNCHANGED <<apiKey, body, attempt, lastError, insights,
                 admitted, validated, cacheCalls, backoffs, failures>>
  /\ UNCHANGED <<limVars, notInsVars>>

\* the end of an iteration without a wait, or of the wait: attempt++, then
\* the loop test; the next call is issued or the final error is thrown
NextIteration(last) ==
  /\ attempt' = attempt + 1
  /\ IF LoopContinues(attempt + 1)
       THEN /\ extCalls' = extCalls + 1
            /\ postPc' = "attempt"
            /\ UNCHANGED caught
       ELSE /\ caught' = AllRetriesFailed(last)
            /\ postPc' = "caught"
            /\ UNCHANGED extCalls

\* generateInsights, lines 283-323: client.messages.create settles
AttemptDone ==
  /\ postPc = "attempt"
  /\ \E out \in Outcomes :
       LET r == tryAttempt(out)
           c == catchAttempt(r.err)
       IN  IF r.kind = "ok"
             THEN /\ insights' = r
                  /\ postResponse' = [status |-> 200, error |-> "", details |-> << >>]
                  /\ postPc' = "done"
                  /\ UNCHANGED <<attempt, lastError, caught, extCalls, backoffs, failures>>
           ELSE /\ failures' = Append(failures, out.cause)
                /\ lastError' = c.lastError
                /\ UNCHANGED <<insights, postResponse>>
                /\ IF c.throw
                     THEN /\ caught' = c.err
                          /\ postPc' = "caught"
                          /\ UNCHANGED <<attempt, extCalls, backoffs>>
                   ELSE IF WaitsBeforeRetry(attempt)
                     THEN /\ backoffs' = backoffs + 1
                          /\ postPc' = "backoff"
                          /\ UNCHANGED <<attempt, caught, extCalls>>
                   ELSE /\ NextIteration(c.lastError)
                        /\ UNCHANGED backoffs
  /\ UNCHANGED <<apiKey, body, payloadSize, admitted, validated, sliceLen, cacheCalls>>
  /\ UNCHANGED <<limVars, notInsVars>>

\* generateInsights, line 322: the backoff timer fires
BackoffDone ==
  /\ postPc = "backoff"
  /\ NextIteration(lastError)
  /\ UNCHANGED <<apiKey, body, payloadSize, lastError, insights, postResponse,
                 admitted, validated, sliceLen, cacheCalls, backoffs, failures>>
  /\ UNCHANGED <<limVars, notInsVars>>

\* POST, lines 168-262: the catch block sends the response
PostCatch ==
  /\ postPc = "caught"
  /\ postResponse' = POSTResponse(caught)
  /\ postPc' = "done"
  /\ UNCHANGED <<apiKey, body, payloadSize, attempt, lastError, insights, caught,
                 admitted, validated, sliceLen, cacheCalls, extCalls, backoffs, failures>>
  /\ UNCHANGED <<limVars, notInsVars>>

NextInsights ==
  \/ PostArrive
  \/ PostValidate
  \/ PostCacheDone
  \/ AttemptDone
  \/ BackoffDone
  \/ PostCatch

SpecInsights == InitInsights /\ [][NextInsights]_vars

(***************************************************************************)
(* Properties of the rebuild coordinator and the snapshot store.           *)
(***************************************************************************)
\* a caller at one of these positions has taken the lock and not released it
LockedPcs == {"acquired", "lk_read", "lk_check", "ingest", "write_mkdir",
              "write_open", "writing", "lk_exit"}

\* fs.readFile of the snapshot is in flight
ReadPcs == {"fast_read", "lk_read"}

\* fs.writeFile of the snapshot is in flight
WritePcs == {"write_open", "writing"}

ValidSources == {"valid1", "valid2"}

Built == buildDailyAggregates(streamParseCSV(source)).data

\* C1: at most one caller at a time is inside the lock-protected section
\* (re-check, ingest, aggregate, write), so two ingest -> aggregate passes
\* never overlap.
C1_MutualExclusion ==
  /\ Cardinality({c \in Callers : pc[c] \in LockedPcs}) <= 1
  /\ Cardinality({c \in Callers : pc[c] = "ingest"}) <= 1

\* one caller runs the ingest pass while two others wait on the lock
C1_Witness ==
  \E c \in Callers :
    /\ pc[c] = "ingest"
    /\ Cardinality({w \in Callers : pc[w] = "waiting"}) >= 2

\* C2: from a cold start with a valid source and a working disk, the
\* ingestion pass runs exactly once in total and every call returns the
\* collection built by that pass.
C2_SingleIngest ==
  (source \in ValidSources /\ disk = "ok") =>
    /\ ingestCount <= 1
    /\ \A c \in Callers :
         /\ result[c].kind # "err"
         /\ result[c].kind = "ok" => (ingestCount = 1 /\ result[c].data = Built)

\* every caller has returned, one of them after waiting for the rebuild and
\* one through the fast path
C2_Witness ==
  /\ source \in ValidSources /\ disk = "ok"
  /\ \A c \in Callers : pc[c] = "done" /\ result[c].kind = "ok"
  /\ \E c \in Callers : wokenBy[c] = "ok"
  /\ ingestCount = 1

\* C3: a caller that was waiting on the lock while the rebuild failed
\* receives that failure and runs no ingestion pass of its own in the same
\* call.
C3_FailureShared ==
  \A c \in Callers :
    wokenBy[c] = "err" => pc[c] \notin {"ingest", "write_mkdir", "write_open", "writing"}

\* C4: whenever no call is inside the protected section the lock is not
\* held, after a rebuild that returned and after one that threw.
C4_LockReleased ==
  (\A c \in Callers : pc[c] \notin LockedPcs) => ~lockState.locked

\* a rebuild has failed, nobody is in the protected section and the lock is
\* free; and a later caller has acquired it after a failure
C4_Witness ==
  /\ \E c \in Callers : result[c].kind = "err"
  /\ \A c \in Callers : pc[c] \notin LockedPcs
  /\ \E c \in Callers : pc[c] \in {"idle", "fast_read", "fast_check"}
  /\ ~lockState.locked

\* C5: every readCache that returns a collection returns a complete
\* collection that was passed to writeCache (or was complete on disk at the
\* start); a read that meets an unfinished write returns null.
C5_NoPartialSnapshot ==
  /\ \A c \in Callers : ~cached[c].isNull => cached[c].data \in written
  /\ \A c \in Callers : result[c].kind = "ok" => result[c].data \in written

\* a lock-free read has returned null while the file holds the unfinished
\* text of a write in progress
C5_Witness ==
  \E c, d \in Callers :
    /\ pc[d] = "writing" /\ wOff[d] >= 2
    /\ cacheFile.exists /\ Len(cacheFile.text) >= 2
    /\ pc[c] = "fast_check" /\ cached[c].isNull

\* C6 as stated: no read of the snapshot file overlaps a write of it.
C6_NeverReadWhileWriting ==
  ~ \E c, d \in Callers : pc[c] \in ReadPcs /\ pc[d] \in WritePcs

\* C6 as amended: two writes of the snapshot file never overlap and the
\* re-check read made under the lock never overlaps a write; only the
\* lock-free read of the fast path can.
C6_WritesSerialized ==
  \A c, d \in Callers :
    (c # d /\ pc[d] \in WritePcs) => pc[c] \notin (WritePcs \cup {"lk_read"})

\* a fast-path read is in flight while another caller writes the file
C6_Witness ==
  \E c, d \in Callers : pc[c] = "fast_read" /\ pc[d] = "writing" /\ wOff[d] >= 1

\* C7: a failure of writeCache reaches the caller of GET /api/data as the
\* 'Failed to cache data' response.
C7_WriteFailureDistinct ==
  \A c \in Callers :
    (pc[c] = "done" /\ Includes(result[c].err.msg, "Failed to write cache"))
      => response[c].error = "Failed to cache data"

(***************************************************************************)
(* Properties of the range summarizer.                                     *)
(***************************************************************************)
ClicksOf(s) == {s[k].clicks : k \in 1..Len(s)}

KeepsDesignated(s, out) ==
  LET all == ClicksOf(s)
      kept == ClicksOf(out)
  IN  /\ \E i \in 1..Len(out) : out[i] = s[1]
      /\ \E i \in 1..Len(out) : out[i] = s[Len(s)]
      /\ \E m \in kept : \A x \in all : x <= m
      /\ \E m \in kept : \A x \in all : x >= m

\* C8: for every series longer than maxPoints the result of
\* downsampleSeries contains the first, the last, the maximum-clicks and the
\* minimum-clicks record.
C8_DownsampleKeepsDesignated ==
  (sumPc = "sampled" /\ Len(series) > maxPoints) => KeepsDesignated(series, sampled)

\* C9: a series of 365 records is downsampled to at most 60 records that
\* include the first, the last, the peak and the trough, wherever the peak
\* and the trough lie.
C9_Downsample365 ==
  (sumPc = "sampled" /\ Len(series) = maxDays) =>
    /\ Len(sampled) <= maxPoints
    /\ KeepsDesignated(series, sampled)

\* a 365-day series with its peak and its trough both off the uniform grid
\* has been downsampled
C9_Witness ==
  /\ sumPc = "sampled"
  /\ Len(series) = maxDays
  /\ series[5].clicks = 400
  /\ series[maxDays - 1].clicks = 90
  /\ Len(sampled) < Len(series)

Example == <<Agg(1, 100), Agg(2, 120), Agg(3, 90), Agg(4, 400), Agg(5, 110)>>

\* C10 as stated: in the series 100, 120, 90, 400, 110 day 4 is flagged as
\* an anomaly and no other day is.
C10_Day4Flagged ==
  (sumPc = "detected" /\ series = Example) => anomalies = <<Agg(4, 400)>>

\* C10 as amended: in the series 100, 120, 90, 400, 110 no day is flagged;
\* day 4 lies 1.99 population standard deviations above the mean of 164.
C10_NoneFlagged ==
  (sumPc = "detected" /\ series = Example) => anomalies = << >>

\* anomaly detection has run on the example series
C10_Witness ==
  sumPc = "detected" /\ series = Example

\* sum of clicks squared over s[lo..hi]
RECURSIVE SumSquares(_, _, _)
SumSquares(s, lo, hi) ==
  IF lo > hi THEN 0
  ELSE IF lo = hi THEN s[lo].clicks * s[lo].clicks
  ELSE SumSquares(s, lo, (lo + hi) \div 2) + SumSquares(s, ((lo + hi) \div 2) + 1, hi)

\* |clicks - mean| > 2 * stddev, with the population variance taken as
\* E[c^2] - mean^2:  (n*c - S)^2 > 4 * (n * Q - S^2)
DeviatesByMoreThan2(s, c) ==
  LET n == Len(s)
      S == SumClicks(s, 1, n)
      Q == SumSquares(s, 1, n)
  IN  (n * c - S) * (n * c - S) > 4 * (n * Q - S * S)

Deltas(s) == {s[k + 1].clicks - s[k].clicks : k \in 1..(Len(s) - 1)}

\* C12: for a series of at least 2 records calculateTrends reports the
\* earliest-dated record of maximum clicks as peak, the earliest-dated record
\* of minimum clicks as trough, the largest positive day-over-day delta as
\* biggest spike and the most negative one as biggest drop; for clicks
\* 100, 120, 90, 400, 110 that is day 4, day 3, +310 into day 4 and -290
\* into day 5.
C12_TrendsExtremes ==
  (sumPc = "trended" /\ Len(series) >= 2) =>
    /\ \E k \in 1..Len(series) :
         /\ trends.peakDay = [date |-> series[k].date, clicks |-> series[k].clicks]
         /\ \A j \in 1..Len(series) :
              /\ series[j].clicks <= series[k].clicks
              /\ series[j].date < series[k].date => series[j].clicks < series[k].clicks
    /\ \E k \in 1..Len(series) :
         /\ trends.troughDay = [date |-> series[k].date, clicks |-> series[k].clicks]
         /\ \A j \in 1..Len(series) :
              /\ series[j].clicks >= series[k].clicks
              /\ series[j].date < series[k].date => series[j].clicks > series[k].clicks
    /\ (\E d \in Deltas(series) : d > 0) =>
         /\ trends.biggestSpike.change \in Deltas(series)
         /\ \A d \in Deltas(series) : d <= trends.biggestSpike.change
         /\ \E k \in 2..Len(series) :
              /\ series[k].date = trends.biggestSpike.date
              /\ series[k].clicks - series[k - 1].clicks = trends.biggestSpike.change
    /\ (\E d \in Deltas(series) : d < 0) =>
         /\ trends.biggestDrop.change \in Deltas(series)
         /\ \A d \in Deltas(series) : d >= trends.biggestDrop.change
         /\ \E k \in 2..Len(series) :
              /\ series[k].date = trends.biggestDrop.date
              /\ series[k].clicks - series[k - 1].clicks = trends.biggestDrop.change
    /\ series = Example =>
         trends = [peakDay |-> [date |-> 4, clicks |-> 400],
                   troughDay |-> [date |-> 3, clicks |-> 90],
                   biggestSpike |-> [date |-> 4, change |-> 310],
                   biggestDrop |-> [date |-> 5, change |-> -290]]

\* the trends of a series whose maximum and minimum both occur twice have
\* been computed
C12_Witness ==
  /\ sumPc = "trended"
  /\ Len(series) = 5
  /\ series[2].clicks = 400 /\ series[4].clicks = 400
  /\ series[1].clicks = 90 /\ series[5].clicks = 90
  /\ trends.peakDay.date = 2
  /\ trends.troughDay.date = 1

(***************************************************************************)
(* Properties of the ingest -> aggregate pass.                             *)
(***************************************************************************)
\* positions of the records without a date key among recs[1..upto]
BadUpTo(recs, upto) == {i \in 1..upto : recs[i].analytics_date = EmptyDate}

IsData(row) == row.analytics_date \notin {EmptyDate, HeaderDate}

IsBudgetError(err) == err.msg = <<"Too many parsing errors">>

\* C13: streamParseCSV ends with the error of the exceeded budget exactly
\* when more than 100 records have no date key, on the 101st of them; with
\* at most 100 of them it reads every record of a non-empty input and ends
\* without an error, yielding the data records only; header-shaped records
\* are not counted.
C13_ErrorBudget ==
  ingPc \in {"parsed", "built"} =>
    LET bad == BadUpTo(rows, Len(rows))
    IN  /\ IsBudgetError(stream.err) <=> Cardinality(bad) > maxErrors
        /\ Cardinality(bad) > maxErrors =>
             \E i \in bad :
               /\ Cardinality(BadUpTo(rows, i)) = maxErrors + 1
               /\ stream.rowCount = i
               /\ stream.rows = SelectSeq(SubSeq(rows, 1, i), IsData)
        /\ (Cardinality(bad) <= maxErrors /\ Len(rows) > 0) =>
             /\ stream.err = NoError
             /\ stream.rowCount = Len(rows)
             /\ stream.errorCount = Cardinality(bad)
             /\ stream.rows = SelectSeq(rows, IsData)

\* an input with exactly 100 records without a date key and two
\* header-shaped records has been read to its end
C13_Witness ==
  /\ ingPc = "parsed"
  /\ Cardinality(BadUpTo(rows, Len(rows))) = maxErrors
  /\ Cardinality({i \in 1..Len(rows) : rows[i].analytics_date = HeaderDate}) = 2
  /\ stream.err = NoError
  /\ Len(stream.rows) = 2

\* C14: a run of streamParseCSV that yields no record ends with an error,
\* for the empty input and for an input whose records are all dropped.
C14_ZeroRecordsFatal ==
  (ingPc \in {"parsed", "built"} /\ Len(stream.rows) = 0) => stream.err # NoError

RECURSIVE SumSeq(_)
SumSeq(s) == IF s = << >> THEN 0 ELSE s[1] + SumSeq(Tail(s))

\* the records of a date, in input order
RowsOf(recs, d) == SelectSeq(recs, LAMBDA r : r.analytics_date = d)

DatesOf(recs) == {recs[i].analytics_date : i \in 1..Len(recs)}

\* C15: the clicks of the collection returned by buildDailyAggregates sum
\* up to the clicks of the records it consumed, and the clicks of each date
\* to the clicks of that date's records.
C15_ClicksConserved ==
  (ingPc = "built" /\ built.err = NoError) =>
    /\ SumSeq([k \in 1..Len(built.data) |-> built.data[k].clicks])
         = SumSeq([i \in 1..Len(stream.rows) |-> stream.rows[i].clicks])
    /\ \A k \in 1..Len(built.data) :
         LET mine == RowsOf(stream.rows, built.data[k].date)
         IN  built.data[k].clicks = SumSeq([i \in 1..Len(mine) |-> mine[i].clicks])

\* four records of two dates, two of each, have been aggregated
C15_Witness ==
  /\ ingPc = "built"
  /\ built.err = NoError
  /\ Len(stream.rows) = 4
  /\ Len(built.data) = 2
  /\ Len(RowsOf(stream.rows, Day1)) = 2
  /\ built.data[1].clicks = 7

\* a quotient <<n, d>> has the value of the quotient <<m, e>>
SameValue(q, r) == q[2] # 0 /\ r[2] # 0 /\ q[1] * r[2] = r[1] * q[2]

\* C16: in the output of buildDailyAggregates a date whose records have no
\* impressions in total has ctr 0 and position 0; any other date has the
\* impression-weighted means of the ctr and the position of its records.
C16_WeightedFinalization ==
  (ingPc = "built" /\ built.err = NoError) =>
    \A k \in 1..Len(built.data) :
      LET mine == RowsOf(stream.rows, built.data[k].date)
          imp == SumSeq([i \in 1..Len(mine) |-> mine[i].impressions])
          ctrW == SumSeq([i \in 1..Len(mine) |-> mine[i].ctr * mine[i].impressions])
          posW == SumSeq([i \in 1..Len(mine) |-> mine[i].position * mine[i].impressions])
      IN  IF imp = 0
            THEN /\ SameValue(built.data[k].ctr, <<0, 1>>)
                 /\ SameValue(built.data[k].position, <<0, 1>>)
            ELSE /\ SameValue(built.data[k].ctr, <<ctrW, imp>>)
                 /\ SameValue(built.data[k].position, <<posW, imp>>)

\* a date with records of 10 and 30 impressions (ctr 2 and 1: weighted mean
\* 5/4, plain mean 3/2) and a date without impressions have been finalized
C16_Witness ==
  /\ ingPc = "built"
  /\ built.err = NoError
  /\ Len(built.data) = 2
  /\ built.data[1].date = Day1 /\ built.data[1].impressions = 40
  /\ SameValue(built.data[1].ctr, <<5, 4>>)
  /\ built.data[2].impressions = 0
  /\ SameValue(built.data[2].ctr, <<0, 1>>)

\* C17: the collection returned by buildDailyAggregates has exactly one
\* record per date key of the records it consumed and is sorted in strictly
\* ascending order of the date key, whatever the order of the input.
C17_OnePerDateSorted ==
  (ingPc = "built" /\ built.err = NoError) =>
    /\ {built.data[k].date : k \in 1..Len(built.data)} = DatesOf(stream.rows)
    /\ DatesOf(stream.rows) = DatesOf(SelectSeq(rows, IsData))
    /\ Len(built.data) = Cardinality(DatesOf(stream.rows))
    /\ \A k \in 1..(Len(built.data) - 1) : built.data[k].date < built.data[k + 1].date

\* records arriving in descending order of date, one date twice, have
\* been aggregated into three records
C17_Witness ==
  /\ ingPc = "built"
  /\ Len(rows) = 4
  /\ rows[1].analytics_date = Day3
  /\ rows[2].analytics_date = Day2
  /\ rows[3].analytics_date = Day1
  /\ rows[4].analytics_date = Day2
  /\ Len(built.data) = 3

(***************************************************************************)
(* Properties of the date filter.                                          *)
(***************************************************************************)
InRange(d) == range.start <= d /\ d <= range.end

\* C18: filterByDateRange returns exactly the records whose date key lies
\* between start and end, both included, in the order of the input, and
\* applied to its own result with the same bounds it returns that result.
C18_FilterInclusiveIdempotent ==
  /\ filtPc \in {"filtered", "refiltered"} =>
       /\ \A i \in 1..Len(filtered) :
            InRange(filtered[i].date) /\ \E k \in 1..Len(series) : series[k] = filtered[i]
       /\ \A k \in 1..Len(series) :
            InRange(series[k].date) => \E i \in 1..Len(filtered) : filtered[i] = series[k]
       /\ Len(filtered) = Cardinality({k \in 1..Len(series) : InRange(series[k].date)})
       /\ \A i, j \in 1..Len(filtered) :
            i < j => \E k, l \in 1..Len(series) :
                       k < l /\ series[k] = filtered[i] /\ series[l] = filtered[j]
  /\ filtPc = "refiltered" => refiltered = filtered

\* a range that starts and ends on days of the collection has been applied
\* twice; the records of both days are in the result
C18_Witness ==
  /\ filtPc = "refiltered"
  /\ Len(series) = MaxFilterDays
  /\ range = [start |-> 2, end |-> 4]
  /\ Len(filtered) = 3
  /\ filtered[1].date = 2 /\ filtered[3].date = 4

(***************************************************************************)
(* Properties of the rate limiter.                                         *)
(***************************************************************************)
\* tokens of a bucket after the lazy refill at time t, in units; a caller
\* without a bucket starts with the capacity
AfterRefill(b, t) ==
  IF ~b.present THEN maxTokens * TokenUnit
  ELSE IF b.tokens + (t - b.lastRefill) < maxTokens * TokenUnit
    THEN b.tokens + (t - b.lastRefill)
    ELSE maxTokens * TokenUnit

\* C19: with a clock that never goes back every bucket holds between 0 and
\* capacity tokens; a call is admitted exactly if the bucket holds at least
\* one token after the lazy refill; an admitted call takes one token and a
\* rejected call takes none.
C19_TokenBucketState ==
  /\ \A id \in Ids :
       buckets[id].present =>
         /\ 0 <= buckets[id].tokens
         /\ buckets[id].tokens <= maxTokens * TokenUnit
         /\ buckets[id].lastRefill <= now
  /\ lastCheck.id \in Ids =>
       LET had == AfterRefill(lastCheck.before, lastCheck.at)
       IN  /\ lastCheck.allowed <=> had >= TokenUnit
           /\ lastCheck.allowed => buckets[lastCheck.id].tokens = had - TokenUnit
           /\ ~lastCheck.allowed => buckets[lastCheck.id].tokens = had

\* a call has been rejected on a bucket holding half a token, which it
\* keeps
C19_Witness ==
  /\ lastCheck.id = Observed
  /\ lastCheck.at = now
  /\ lastCheck.before.present
  /\ now > lastCheck.before.lastRefill
  /\ ~lastCheck.allowed
  /\ buckets[Observed].tokens > 0
  /\ buckets[Observed].tokens < TokenUnit

\* C20: in every interval the calls of one caller that are admitted number
\* at most capacity + rate * length of the interval, whatever the other
\* callers do; a fresh caller calling without time passing is admitted
\* exactly 10 times and then rejected.
C20_AdmissionBound ==
  /\ now >= winStart =>
       admittedIn * TokenUnit <= maxTokens * TokenUnit + (now - winStart)
  /\ fresh => admittedNow = Min(callsNow, maxTokens)

\* a fresh caller has made 11 calls at one instant, 10 of them admitted,
\* while the other caller has used its bucket as well
C20_Witness ==
  /\ fresh
  /\ callsNow = MaxBurst
  /\ admittedNow = maxTokens
  /\ buckets[2].present
  /\ buckets[2].tokens < maxTokens * TokenUnit

(***************************************************************************)
(* Properties of the analysis client.                                      *)
(***************************************************************************)
\* C21: generateInsights makes at most 2 external calls.  After a first
\* attempt that failed with a timeout or a transport failure there is one
\* backoff wait and then exactly one more call; if that one succeeds its
\* validated result is returned, if it fails the error is surfaced and no
\* third call is made.
C21_TwoAttempts ==
  /\ extCalls <= 2
  /\ backoffs <= 1
  /\ (Len(failures) >= 1 /\ failures[1] \in {"timeout", "transport"}) =>
       /\ backoffs = 1
       /\ extCalls = IF postPc = "backoff" THEN 1 ELSE 2
       /\ (postPc = "done" /\ Len(failures) = 1) =>
            /\ insights.kind = "ok"
            /\ validateClaudeResponse(insights.data) = Valid
            /\ postResponse.status = 200
       /\ Len(failures) = 2 =>
            /\ postPc \in {"caught", "done"}
            /\ insights = Pending
            /\ caught \in {AllRetriesFailed(lastError), QuotaError, AuthError}

\* a timeout, then a transport failure: the error is surfaced after 2 calls
C21_Witness ==
  /\ failures = <<"timeout", "transport">>
  /\ postPc = "done"
  /\ extCalls = 2
  /\ backoffs = 1
  /\ caught = AllRetriesFailed(lastError)

WithinBounds(v) ==
  /\ v.isObject
  /\ \A f \in {"insights", "anomalies", "opportunities", "questions"} : v[f].isArray
  /\ v.insights.count <= 20
  /\ v.anomalies.count <= 50
  /\ v.opportunities.count <= 20
  /\ v.questions.count <= 20
  /\ \A f \in {"insights", "opportunities", "questions"} :
       v[f].count > 0 => v[f].elem.isString /\ v[f].elem.len <= 500
  /\ v.anomalies.count > 0 =>
       /\ v.anomalies.elem.isObject
       /\ \A f \in {"date", "metric", "change", "explanation"} : v.anomalies.elem[f].isString
       /\ v.anomalies.elem.date.len <= 20
       /\ v.anomalies.elem.metric.len <= 50
       /\ v.anomalies.elem.change.len <= 200
       /\ v.anomalies.elem.explanation.len <= 500

\* C23: generateInsights returns a response only if it parsed as JSON and
\* has the four array fields, each within its count bound and each string
\* within its length bound; the handler answers 200 only with such a one.
C23_OnlyValidatedReturned ==
  /\ insights.kind = "ok" => WithinBounds(insights.data)
  /\ postResponse.status = 200 => insights.kind = "ok"

\* the response with every array and string at its bound is returned
C23_Witness ==
  /\ insights.kind = "ok"
  /\ insights.data = AtBounds
  /\ postResponse.status = 200

\* C30: every first attempt that fails with something else than an
\* authentication or quota failure, a response that is not JSON or not valid
\* included, is followed by the backoff wait and a second external call; an
\* error is surfaced only after the second attempt failed too.
C30_OtherFailuresRetried ==
  (Len(failures) >= 1 /\ failures[1] \notin {"auth", "quota"}) =>
    /\ backoffs = 1
    /\ extCalls = IF postPc = "backoff" THEN 1 ELSE 2
    /\ caught # NoError => Len(failures) = 2

(***************************************************************************)
(* Properties of the handler of POST /api/insights and of the error        *)
(* responses of both routes.                                               *)
(***************************************************************************)
\* C24: the external service is called only for a request that the limiter
\* admitted, whose body and date range then passed validation, whose
\* filtered slice then was not empty and whose serialized payload then had
\* at most 30000 characters; a larger payload is answered with 'Date range
\* too large' without an external call, and a request the limiter denied
\* causes neither a getCacheOrBuild call nor an external call.
C24_ExternalCallGuarded ==
  /\ extCalls > 0 =>
       /\ admitted
       /\ validated
       /\ sliceLen > 0
       /\ payloadSize > 0
       /\ payloadSize <= 30000
  /\ validated =>
       /\ admitted
       /\ body.json
       /\ body.startDate \notin {EmptyDate, InvalidDate}
       /\ body.endDate \notin {EmptyDate, InvalidDate}
       /\ DayNumber(body.startDate) <= DayNumber(body.endDate)
       /\ DayNumber(body.endDate) - DayNumber(body.startDate) <= 365
  /\ cacheCalls > 0 => validated
  /\ sliceLen >= 0 => cacheCalls = 1
  /\ payloadSize > 0 => sliceLen > 0
  /\ payloadSize > 30000 =>
       /\ extCalls = 0
       /\ postPc = "done"
       /\ postResponse = Reply(400, "Date range too large")
  /\ (postPc # "ready" /\ ~admitted) =>
       /\ postPc = "done"
       /\ cacheCalls = 0
       /\ extCalls = 0
       /\ postResponse = Reply(429, "Rate limit exceeded")

\* a payload of exactly 30000 characters is sent to the service
C24_Witness ==
  /\ extCalls = 1
  /\ payloadSize = 30000
  /\ sliceLen > 0
  /\ admitted

\* C25: an authentication failure and a quota failure of the analysis
\* service each get their own response, the quota failure the 429 response
\* 'AI service rate limit exceeded.', and never the generic one.
C25_AnalysisErrorsSpecific ==
  (postPc = "done" /\ caught \in {QuotaError, AuthError}) =>
    /\ postResponse.error # "An unexpected error occurred while generating insights."
    /\ caught = QuotaError => postResponse = Reply(429, "AI service rate limit exceeded.")

\* C26: the body of an error response never holds the message of the
\* internal error: its details are absent or a fixed text.
C26_NoRawMessage ==
  \A c \in Callers : response[c].details \in {<< >>, <<"fixed">>}

(***************************************************************************)
(* Liveness of the rebuild coordinator.                                    *)
(***************************************************************************)
\* a caller at one of these positions is inside getCacheOrBuild
InCallPcs == {"fast_read", "fast_check", "waiting", "woken", "acquired", "lk_read",
              "lk_check", "ingest", "write_mkdir", "write_open", "writing", "lk_exit"}

\* C27: under fair scheduling every getCacheOrBuild call eventually returns
\* or throws; in particular a caller waiting for the lock does not stay
\* blocked after the holder has released it.
C27_EventuallyServed ==
  \A c \in Callers : (pc[c] \in InCallPcs) ~> (pc[c] \in {"returned", "done"})

\* two callers waited for the holder's rebuild, were woken by its release
\* and have got their outcome
C27_Witness ==
  \E c, d \in Callers :
    /\ c # d
    /\ wokenBy[c] # "none"
    /\ wokenBy[d] # "none"
    /\ pc[c] = "done"
    /\ pc[d] = "done"

(***************************************************************************)
(* Properties of the upload.                                               *)
(***************************************************************************)
\* C28: once the upload has completed, a getCacheOrBuild call that starts
\* afterwards does not return the aggregates of the file the upload
\* replaced.
C28_NoStaleAfterUpload ==
  \A c \in lateCallers :
    (upPc = "done" /\ pc[c] \in {"returned", "done"} /\ result[c].kind = "ok") =>
      result[c].data # BuildOf[OldSource].data

(***************************************************************************)
(* The limiter against the reference that never removes a bucket.          *)
(***************************************************************************)
\* C29: every checkLimit call gets the decision the same call gets from a
\* limiter that was given the same calls at the same times and never ran
\* cleanup.
C29_EvictionUnobservable ==
  lastCheck # NoCheck => lastCheck.allowed = shadowCheck.allowed

\* a call of a caller whose bucket cleanup has removed: the limiter finds
\* no bucket where the reference finds the old one
C29_Witness ==
  /\ lastCheck.id = Observed
  /\ ~lastCheck.before.present
  /\ shadowCheck.before.present
  /\ lastCheck.allowed

====
